---- MODULE Spec2Model ----
(***************************************************************************)
(* A model of the byte-layout utilities of denoland/webgpu-examples        *)
(* (src/utils.ts): the row padding of captures, the size and bytes of      *)
(* initialised buffers, the capture read-back and the mip-chain upload of  *)
(* textures; and of Framework.renderPng (src/framework.ts).                *)
(* Every component has its own specification; the variables of the other   *)
(* components stay at their initial values under it.                       *)
(***************************************************************************)
EXTENDS Integers, Sequences, FiniteSets, TLC

VARIABLES
  rowPc,        \* getRowPadding: "idle" | "returned"
  rowWidth,     \* getRowPadding: the width argument of the last call
  rowPadding,   \* getRowPadding: the Padding returned by the last call
  biPc,         \* createBufferInit: "idle" | "returned" | "threw"
  contentsLen,  \* createBufferInit: contents.byteLength (two 16-bit limbs)
  bufferSize,   \* createBufferInit: the size given to device.createBuffer
  passedContents, \* createBufferInit: the bytes of descriptor.contents as passed
  contents,     \* createBufferInit: the bytes of descriptor.contents afterwards
  bufferData,   \* createBufferInit: the bytes of the created buffer
  bufferMapped, \* createBufferInit: the created buffer is still mapped
  capPc,        \* capture: the position of the capturing program
  dimensions,   \* capture: the Dimensions given to createCapture/copyToBuffer
  captureSize,  \* capture: the size createCapture gives to device.createBuffer
  gpuBuffer,    \* capture: the bytes of outputBuffer (the readback buffer)
  texels,       \* capture: the tightly packed rows of the rendered texture
  commands,     \* capture: the copies recorded into the command encoder
  gpuDone,      \* capture: the submitted commands have been executed
  gpuErrors,    \* capture: the validation errors the device has raised
  pngDimensions, \* createPng: its dimensions argument
  pngOutput,    \* createPng: outputBuffer, the bytes handed to png.encode
  texPc,        \* createTextureWithData: "idle" | "loop" | "returned" | "threw"
  descriptor,   \* createTextureWithData: the caller's GPUTextureDescriptor
  passedDescriptor, \* createTextureWithData: that descriptor as it was passed
  dataLen,      \* createTextureWithData: data.length
  layerIterations, \* createTextureWithData: the local of that name
  formatInfo,   \* createTextureWithData: the local of that name
  layer,        \* createTextureWithData: the outer loop variable
  mip,          \* createTextureWithData: the inner loop variable
  binaryOffset, \* createTextureWithData: the running offset into data
  writes,       \* createTextureWithData: the writeTexture calls issued so far
  fwPc,         \* Framework: "none" | "constructed" | the await renderPng is at
                \*   | "resolved" | "rejected"
  fwDimensions, \* Framework: this.dimensions
  fwDelivered,  \* Framework: history, the errors of the uncapturederror
                \*   events dispatched since the construction
  errors,       \* Framework: this.errors
  fwLog,        \* Framework: the steps the current run of renderPng has done
  fwSubmitted,  \* Framework: the command buffer has been submitted
  fwGpuDone,    \* Framework: the device has executed the submitted work
  fwMapState,   \* Framework: outputBuffer is "unmapped" | "pending" | "mapped"
  fwRowsRead,   \* Framework: the rows createPng has read from outputBuffer
  fwRejection,  \* Framework: what renderPng rejected with
  legacyPc,     \* legacy createBufferInit: "idle" | "returned"
  legacyContentsLen, \* legacy createBufferInit: contents.byteLength (limbs)
  legacyBufferSize, \* legacy createBufferInit: the size requested (limbs)
  hcPc,         \* hello-compute: "idle" | "running" | "gpuDone" | "printed"
  hcChecked,    \* hello-compute: the program with the overflow guard runs
  numbers,      \* hello-compute: the Uint32Array of the program (limbs)
  hcData,       \* hello-compute: v_indices.data, the storage buffer
  hcIndex,      \* hello-compute: global_id.x + 1 of the running invocation
  hcN,          \* hello-compute: var n of the running invocation
  hcI,          \* hello-compute: var i of the running invocation
  hcExact,      \* hello-compute: history, the integer the rule has led to,
                \*   followed until it exceeds 0xffffffff
  hcWrapped,    \* hello-compute: history, a 3u * n + 1u exceeded 0xffffffff
  hcEnds,       \* hello-compute: history, how each invocation ended
  hcOutput,     \* hello-compute: the elements console.log printed
  boidsPc,      \* Boids: "none" | "constructed" | "initialised"
  particleCount, \* Boids: this.particleCount
  particlesPerGroup, \* Boids: this.particlesPerGroup
  particleBuffers, \* Boids: this.particleBuffers (the buffers by number)
  particleBindGroups, \* Boids: this.particleBindGroups
  frameNum,     \* Boids: this.frameNum
  boidsInits,   \* Boids: the calls of init so far
  boidsFrames,  \* Boids: history, what each call of render has recorded
  gdPc,         \* getDevice: "idle" | "awaitAdapter" | "awaitDevice"
                \*   | "returned" | "threw"
  requiredFeatures, \* getDevice: the argument of that name
  optionalFeatures, \* getDevice: the argument of that name
  adapter,      \* getDevice: what requestAdapter resolved to
  gdRequested,  \* getDevice: adapter.requestDevice has been called
  gdRequest,    \* getDevice: the requiredFeatures given to requestDevice
  gdError,      \* getDevice: the message of the error thrown
  hexPc,        \* hex mesh: "none" | "constructed" | "loop" | "returned"
  hexKind,      \* hex mesh: "terrain" (HexTerrainMesh) | "water" (HexWaterMesh)
  hexRadius,    \* hex mesh: the radius given to the constructor
  vertices,     \* hex mesh: this.vertices, the entries of the Map in order
  halfSize2,    \* hex mesh: 2 * this.halfSize
  hexNextKey,   \* hex mesh: the number of the next array object created
  hexI2,        \* hex mesh: 2 * i of the loops of makeBufferData
  hexJ2,        \* hex mesh: 2 * j of the loops of makeBufferData
  hexLookups,   \* hex mesh: history, the lookups this.vertices.get([i, j])
  hexHanded,    \* hex mesh: the values handed to the forEach callback
  skyPc,        \* Skybox: "constructed" | "initialised"
  deviceFeatures, \* Skybox: this.device.features
  skyboxFormat  \* Skybox: the local of that name in init

vars == <<rowPc, rowWidth, rowPadding, biPc, contentsLen, bufferSize,
          passedContents, contents, bufferData, bufferMapped,
          capPc, dimensions, captureSize, gpuBuffer, texels, commands,
          gpuDone, gpuErrors, pngDimensions, pngOutput,
          texPc, descriptor, passedDescriptor, dataLen, layerIterations,
          formatInfo, layer, mip, binaryOffset, writes,
          fwPc, fwDimensions, fwDelivered, errors, fwLog, fwSubmitted,
          fwGpuDone,
          fwMapState, fwRowsRead, fwRejection,
          legacyPc, legacyContentsLen, legacyBufferSize,
          hcPc, hcChecked, numbers, hcData, hcIndex, hcN, hcI, hcExact,
          hcWrapped, hcEnds, hcOutput,
          boidsPc, particleCount, particlesPerGroup, particleBuffers,
          particleBindGroups, frameNum, boidsInits, boidsFrames,
          gdPc, requiredFeatures, optionalFeatures, adapter, gdRequested,
          gdRequest, gdError,
          hexPc, hexKind, hexRadius, vertices, halfSize2, hexNextKey, hexI2,
          hexJ2, hexLookups, hexHanded,
          skyPc, deviceFeatures, skyboxFormat>>

rowVars == <<rowPc, rowWidth, rowPadding>>
biVars == <<biPc, contentsLen, bufferSize, passedContents, contents,
            bufferData, bufferMapped>>
capVars == <<capPc, dimensions, captureSize, gpuBuffer, texels, commands,
             gpuDone, gpuErrors, pngDimensions, pngOutput>>
texVars == <<texPc, descriptor, passedDescriptor, dataLen, layerIterations,
             formatInfo, layer, mip, binaryOffset, writes>>
fwVars == <<fwPc, fwDimensions, fwDelivered, errors, fwLog, fwSubmitted,
            fwGpuDone,
            fwMapState, fwRowsRead, fwRejection>>
legacyVars == <<legacyPc, legacyContentsLen, legacyBufferSize>>
hcVars == <<hcPc, hcChecked, numbers, hcData, hcIndex, hcN, hcI, hcExact,
            hcWrapped, hcEnds, hcOutput>>
boidsVars == <<boidsPc, particleCount, particlesPerGroup, particleBuffers,
               particleBindGroups, frameNum, boidsInits, boidsFrames>>
gdVars == <<gdPc, requiredFeatures, optionalFeatures, adapter, gdRequested,
            gdRequest, gdError>>
hexVars == <<hexPc, hexKind, hexRadius, vertices, halfSize2, hexNextKey,
             hexI2, hexJ2, hexLookups, hexHanded>>
skyVars == <<skyPc, deviceFeatures, skyboxFormat>>

\* Bounds of the model.
MaxWidth == 130
MaxLen == 70
MaxLo == 8
MaxCapWidth == 2
MaxHeight == 3
MaxSeed == 2
MaxDepth == 2
MaxMips == 3
MaxErrors == 2
MaxN == 7
MaxNumbers == 1
MaxCollatzSteps == 300
MaxFrames == 6
MaxInits == 2
MaxFeatures == 2
MaxRadius == 3

Max(a, b) == IF a >= b THEN a ELSE b
Min(a, b) == IF a <= b THEN a ELSE b

(***************************************************************************)
(* JavaScript arithmetic.                                                  *)
(***************************************************************************)

\* The % operator of JavaScript: the result has the sign of the dividend.
JsRem(a, b) == IF a >= 0 THEN a % b ELSE 0 - ((0 - a) % b)

\* A byte length can exceed 2^31 - 1, the largest integer of TLC, so it is
\* held as two 16-bit limbs: value = hi * 65536 + lo.
Limb == 65536

U32(hi, lo) == [hi |-> hi, lo |-> lo]

\* x + k for a small k >= 0, exact (JavaScript numbers hold it exactly):
\* the high limb of the sum can reach 65536.
LimbsAdd(x, k) ==
  [hi |-> x.hi + ((x.lo + k) \div Limb), lo |-> (x.lo + k) % Limb]

\* ToInt32 of ECMAScript, as a bit pattern: the value modulo 2^32.
ToInt32Bits(x) == [hi |-> x.hi % Limb, lo |-> x.lo]

RECURSIVE BitAnd(_, _, _)
BitAnd(a, b, bits) ==
  IF bits = 0 THEN 0
  ELSE (a % 2) * (b % 2) + 2 * BitAnd(a \div 2, b \div 2, bits - 1)

\* a & b on 32-bit patterns.
And32(a, b) == [hi |-> BitAnd(a.hi, b.hi, 16), lo |-> BitAnd(a.lo, b.lo, 16)]

\* ~k for a small k >= 0, as a 32-bit pattern.
Not32(k) == [hi |-> Limb - 1, lo |-> Limb - 1 - k]

\* The signed integer a 32-bit pattern stands for (the result of & and ~).
Int32Value(x) ==
  IF x.hi >= Limb \div 2 THEN (x.hi - Limb) * Limb + x.lo
  ELSE x.hi * Limb + x.lo

(***************************************************************************)
(* getRowPadding                                                           *)
(***************************************************************************)

getRowPadding_NoInnerMod(width) ==
  LET bytesPerPixel == 4
      unpaddedBytesPerRow == width * bytesPerPixel
      align == 256
      paddedBytesPerRowPadding == JsRem(align - unpaddedBytesPerRow, align)
      paddedBytesPerRow == unpaddedBytesPerRow + paddedBytesPerRowPadding
  IN [unpadded |-> unpaddedBytesPerRow, padded |-> paddedBytesPerRow]

getRowPadding_NoOuterMod(width) ==
  LET bytesPerPixel == 4
      unpaddedBytesPerRow == width * bytesPerPixel
      align == 256
      paddedBytesPerRowPadding == align - JsRem(unpaddedBytesPerRow, align)
      paddedBytesPerRow == unpaddedBytesPerRow + paddedBytesPerRowPadding
  IN [unpadded |-> unpaddedBytesPerRow, padded |-> paddedBytesPerRow]

getRowPadding(width) ==
  LET bytesPerPixel == 4
      unpaddedBytesPerRow == width * bytesPerPixel
      align == 256
      paddedBytesPerRowPadding ==
        JsRem(align - JsRem(unpaddedBytesPerRow, align), align)
      paddedBytesPerRow == unpaddedBytesPerRow + paddedBytesPerRowPadding
  IN [unpadded |-> unpaddedBytesPerRow, padded |-> paddedBytesPerRow]

\* One call of getRowPadding with any width.
CallGetRowPadding ==
  \E w \in 0..MaxWidth :
    /\ rowPc' = "returned"
    /\ rowWidth' = w
    /\ rowPadding' = getRowPadding(w)
    /\ UNCHANGED <<biVars, capVars, texVars, fwVars, legacyVars, hcVars,
                   boidsVars, gdVars, hexVars, skyVars>>

(***************************************************************************)
(* createBufferInit                                                        *)
(***************************************************************************)

\* The byte lengths of descriptor.contents the model draws: the small ones,
\* and the ones around 2^31 and below 2^32.
ContentsLens ==
  {U32(0, l) : l \in 0..MaxLen}
    \cup {U32(h, l) : h \in {32767, 32768, 65535},
                      l \in (0..MaxLo) \cup ((Limb - 1 - MaxLo)..(Limb - 1))}

paddedSizeOf_NoMax(byteLength) ==
  LET alignMask == 4 - 1
  IN Int32Value(And32(ToInt32Bits(LimbsAdd(byteLength, alignMask)),
                      Not32(alignMask)))

\* const alignMask = 4 - 1;
\* const paddedSize = Math.max((contents.byteLength + alignMask) & ~alignMask, 4);
paddedSizeOf(byteLength) ==
  LET alignMask == 4 - 1
  IN Max(Int32Value(And32(ToInt32Bits(LimbsAdd(byteLength, alignMask)),
                          Not32(alignMask))),
         4)

\* Is the integer s >= the byte length n ?
GeLen(s, n) == n.hi < Limb \div 2 /\ s >= n.hi * Limb + n.lo

\* A freshly created buffer, and a fresh Uint8Array, hold zeros.
Zeros(n) == [k \in 1..n |-> 0]

\* TypedArray.prototype.set(source, offset), for a source that fits: the
\* bytes of source go to target[offset ..], the other bytes stay.
SetAt(target, source, offset) ==
  [k \in 1..Len(target) |->
     IF k > offset /\ k <= offset + Len(source) THEN source[k - offset]
     ELSE target[k]]

\* The bytes of descriptor.contents. The model holds the bytes of the
\* lengths up to MaxLen (a pattern in which no byte is 0 and neighbouring
\* bytes differ); of the lengths around 2^31 and 2^32 it holds the length
\* alone.
BytesAreHeld(n) == n.hi = 0 /\ n.lo <= MaxLen
ContentsBytes(n, seed) ==
  IF BytesAreHeld(n) THEN [k \in 1..n.lo |-> 1 + ((seed * 7 + k * 3) % 255)]
  ELSE << >>

mappedRangeAfterSet_NoSet(paddedSize, bytes) == Zeros(paddedSize)

\* const data = new Uint8Array(buffer.getMappedRange()); data.set(contents);
\* the mapped range of a buffer created with mappedAtCreation holds zeros.
mappedRangeAfterSet(paddedSize, bytes) == SetAt(Zeros(paddedSize), bytes, 0)

\* createBufferInit(device, descriptor): the buffer is created with
\* paddedSize bytes and mapped; data.set(contents) throws a RangeError when
\* contents is longer than the mapped range, and then nothing is written
\* and the function neither unmaps nor returns.
createBufferInit ==
  \E n \in ContentsLens, seed \in 0..MaxSeed :
    LET paddedSize == paddedSizeOf(n)
        bytes == ContentsBytes(n, seed)
        fits == GeLen(paddedSize, n)
    IN /\ contentsLen' = n
       /\ passedContents' = bytes
       /\ contents' = bytes
       /\ bufferSize' = paddedSize
       /\ bufferData' =
            IF ~BytesAreHeld(n) THEN << >>
            ELSE IF fits THEN mappedRangeAfterSet(paddedSize, bytes)
            ELSE Zeros(paddedSize)
       /\ bufferMapped' = ~fits
       /\ biPc' = IF fits THEN "returned" ELSE "threw"
       /\ UNCHANGED <<rowVars, capVars, texVars, fwVars, legacyVars, hcVars,
                      boidsVars, gdVars, hexVars, skyVars>>

(***************************************************************************)
(* createCapture, copyToBuffer, createPng                                  *)
(***************************************************************************)

\* The dimensions the model draws: narrow rows, a row that is exactly
\* aligned (64 pixels = 256 bytes) and one just beyond it.
CaptureWidths == (0..MaxCapWidth) \cup {64, 65}
CaptureDimensions ==
  {[width |-> w, height |-> h] : w \in CaptureWidths, h \in 0..MaxHeight}

\* The bytes a render pass leaves in the texture, row after row, 4 bytes a
\* pixel (rgba8unorm-srgb): a pattern in which no byte is 0 and
\* neighbouring bytes differ.
RenderedTexels(dims, seed) ==
  [k \in 1..(dims.width * 4 * dims.height) |-> 1 + ((seed * 7 + k * 3) % 255)]

\* The value of the bytes the copy leaves between the rows.
PadFills == {0, 170, 255}

\* What the device does with copyTextureToBuffer(texture, layout, extent):
\* row i of the texture goes to offset i * bytesPerRow of the buffer. The
\* copy is refused (a validation error, the buffer untouched) when
\* bytesPerRow is not a multiple of 256, is shorter than a row, or the last
\* byte lies beyond the buffer.
BytesPerTexel == 4
CopyBytesInRow(cmd) == cmd.extent.width * BytesPerTexel
CopyRequiredBytes(cmd) ==
  IF cmd.extent.width = 0 \/ cmd.extent.height = 0 THEN 0
  ELSE (cmd.extent.height - 1) * cmd.bytesPerRow + CopyBytesInRow(cmd)
CopyIsValid(cmd, size) ==
  /\ cmd.bytesPerRow % 256 = 0
  /\ (cmd.extent.height > 1 => cmd.bytesPerRow >= CopyBytesInRow(cmd))
  /\ CopyRequiredBytes(cmd) <= size
CopiedBuffer(cmd, source, target, fill) ==
  [k \in 1..Len(target) |->
     LET row == (k - 1) \div Max(cmd.bytesPerRow, 1)
         col == (k - 1) % Max(cmd.bytesPerRow, 1)
     IN IF row < cmd.extent.height /\ col < CopyBytesInRow(cmd)
        THEN source[row * CopyBytesInRow(cmd) + col + 1]
        ELSE fill]

\* TypedArray.prototype.slice(begin, end) for 0 <= begin: both ends are
\* clamped to the length.
Slice(a, begin, end) ==
  LET b == Min(begin, Len(a))
      e == Min(end, Len(a))
  IN IF e > b THEN SubSeq(a, b + 1, e) ELSE << >>

rowSlice_TightStride(inputBuffer, i, padded, unpadded) ==
  Slice(Slice(inputBuffer, i * unpadded, (i + 1) * unpadded), 0, unpadded)

\* inputBuffer.slice(i * padded, (i + 1) * padded).slice(0, unpadded)
rowSlice(inputBuffer, i, padded, unpadded) ==
  Slice(Slice(inputBuffer, i * padded, (i + 1) * padded), 0, unpadded)

\* for (let i = 0; i < dimensions.height; i++) { ... outputBuffer.set(slice, i * unpadded); }
RECURSIVE unpackRows(_, _, _, _, _, _)
unpackRows(inputBuffer, outputBuffer, i, height, padded, unpadded) ==
  IF i < height
  THEN unpackRows(inputBuffer,
                  SetAt(outputBuffer,
                        rowSlice(inputBuffer, i, padded, unpadded),
                        i * unpadded),
                  i + 1, height, padded, unpadded)
  ELSE outputBuffer

createPngOutput_SkipLastRow(inputBuffer, dims) ==
  LET p == getRowPadding(dims.width)
  IN unpackRows(inputBuffer, Zeros(p.unpadded * dims.height), 0,
                dims.height - 1, p.padded, p.unpadded)

\* The outputBuffer createPng hands to png.encode.
createPngOutput(inputBuffer, dims) ==
  LET p == getRowPadding(dims.width)
  IN unpackRows(inputBuffer, Zeros(p.unpadded * dims.height), 0,
                dims.height, p.padded, p.unpadded)

captureBufferSize_Unpadded(dims) ==
  getRowPadding(dims.width).unpadded * dims.height

\* const { padded } = getRowPadding(dimensions.width); size: padded * dimensions.height
captureBufferSize(dims) == getRowPadding(dims.width).padded * dims.height

\* createCapture(device, dimensions): a buffer of padded * height bytes
\* (zeroed) and a texture of the dimensions.
createCapture ==
  \E dims \in CaptureDimensions :
    /\ capPc = "start"
    /\ capPc' = "captured"
    /\ dimensions' = dims
    /\ captureSize' = captureBufferSize(dims)
    /\ gpuBuffer' = Zeros(captureBufferSize(dims))
    /\ UNCHANGED <<texels, commands, gpuDone, gpuErrors, pngDimensions,
                   pngOutput>>
    /\ UNCHANGED <<rowVars, biVars, texVars, fwVars, legacyVars, hcVars,
                   boidsVars, gdVars, hexVars, skyVars>>

\* The render pass recorded between createCapture and copyToBuffer: it
\* decides the texels of the texture.
render ==
  \E seed \in 0..MaxSeed :
    /\ capPc = "captured"
    /\ capPc' = "rendered"
    /\ texels' = RenderedTexels(dimensions, seed)
    /\ UNCHANGED <<dimensions, captureSize, gpuBuffer, commands, gpuDone,
                   gpuErrors, pngDimensions, pngOutput>>
    /\ UNCHANGED <<rowVars, biVars, texVars, fwVars, legacyVars, hcVars,
                   boidsVars, gdVars, hexVars, skyVars>>

\* The copy copyToBuffer records.
copyCommand(dims) ==
  [bytesPerRow |-> getRowPadding(dims.width).padded, rowsPerImage |-> 0,
   extent |-> dims]

\* copyToBuffer(encoder, texture, outputBuffer, dimensions)
copyToBuffer ==
  /\ capPc = "rendered"
  /\ capPc' = "recorded"
  /\ commands' = Append(commands, copyCommand(dimensions))
  /\ UNCHANGED <<dimensions, captureSize, gpuBuffer, texels, gpuDone,
                 gpuErrors, pngDimensions, pngOutput>>
  /\ UNCHANGED <<rowVars, biVars, texVars, fwVars, legacyVars, hcVars,
                 boidsVars, gdVars, hexVars, skyVars>>

\* device.queue.submit([encoder.finish()])
submit ==
  /\ capPc = "recorded"
  /\ capPc' = "submitted"
  /\ UNCHANGED <<dimensions, captureSize, gpuBuffer, texels, commands,
                 gpuDone, gpuErrors, pngDimensions, pngOutput>>
  /\ UNCHANGED <<rowVars, biVars, texVars, fwVars, legacyVars, hcVars,
                 boidsVars, gdVars, hexVars, skyVars>>

\* The device executes the submitted copy, at any time after the submit.
gpuExecute ==
  \E fill \in PadFills :
    /\ capPc \in {"submitted", "mapping"}
    /\ ~gpuDone
    /\ gpuDone' = TRUE
    /\ IF CopyIsValid(commands[1], captureSize)
       THEN /\ gpuBuffer' = CopiedBuffer(commands[1], texels, gpuBuffer, fill)
            /\ UNCHANGED gpuErrors
       ELSE /\ gpuErrors' = gpuErrors + 1
            /\ UNCHANGED gpuBuffer
    /\ UNCHANGED <<capPc, dimensions, captureSize, texels, commands,
                   pngDimensions, pngOutput>>
    /\ UNCHANGED <<rowVars, biVars, texVars, fwVars, legacyVars, hcVars,
                   boidsVars, gdVars, hexVars, skyVars>>

\* createPng(buffer, dimensions) up to its await: buffer.mapAsync(1). The
\* examples pass the dimensions of the capture; the function takes any.
createPngCall ==
  \E dims \in CaptureDimensions :
    /\ capPc = "submitted"
    /\ capPc' = "mapping"
    /\ pngDimensions' = dims
    /\ UNCHANGED <<dimensions, captureSize, gpuBuffer, texels, commands,
                   gpuDone, gpuErrors, pngOutput>>
    /\ UNCHANGED <<rowVars, biVars, texVars, fwVars, legacyVars, hcVars,
                   boidsVars, gdVars, hexVars, skyVars>>

\* createPng after mapAsync has resolved (the submitted work is done by
\* then): the rows are unpacked, the image is encoded and written, the
\* buffer is unmapped.
createPngResume ==
  /\ capPc = "mapping"
  /\ gpuDone
  /\ capPc' = "done"
  /\ pngOutput' = createPngOutput(gpuBuffer, pngDimensions)
  /\ UNCHANGED <<dimensions, captureSize, gpuBuffer, texels, commands,
                 gpuDone, gpuErrors, pngDimensions>>
  /\ UNCHANGED <<rowVars, biVars, texVars, fwVars, legacyVars, hcVars,
                 boidsVars, gdVars, hexVars, skyVars>>

(***************************************************************************)
(* createTextureWithData                                                   *)
(***************************************************************************)

\* An optional field that is absent (undefined in the source).
Absent == -1

\* a ?? b
OrElse(a, b) == IF a = Absent THEN b ELSE a

ShiftRight_NoShift(x, n) == x

\* x >> n on int32 operands, for 0 <= x.
ShiftRight(x, n) == x \div (2 ^ (n % 32))

\* The entries of the switch of describeTextureFormat the model uses.
\* "TODO" entries (info = []) give a result whose fields are all
\* undefined; an identifier with no case leaves info unassigned, and
\* reading info[0] throws.
FormatInfo(feature, sample, usage, bw, bh, size, comps) ==
  [throws |-> FALSE, defined |-> TRUE, requiredFeature |-> feature,
   sampleType |-> sample, usage |-> usage, blockDimensions |-> <<bw, bh>>,
   blockSize |-> size, components |-> comps]

NoFormatInfo_Placeholder(throws) ==
  [throws |-> FALSE, defined |-> TRUE, requiredFeature |-> "undefined",
   sampleType |-> "float", usage |-> "basic",
   blockDimensions |-> <<1, 1>>, blockSize |-> 1, components |-> 1]

NoFormatInfo(throws) ==
  [throws |-> throws, defined |-> FALSE, requiredFeature |-> "undefined",
   sampleType |-> "undefined", usage |-> "undefined",
   blockDimensions |-> <<0, 0>>, blockSize |-> 0, components |-> 0]

describeTextureFormat(format) ==
  CASE format = "rgba8unorm" ->
         FormatInfo("undefined", "float", "allFlags", 1, 1, 4, 4)
    [] format = "bgra8unorm-srgb" ->
         FormatInfo("undefined", "float", "attachment", 1, 1, 4, 4)
    [] format = "stencil8" -> NoFormatInfo(FALSE)
    [] format = "depth16unorm" -> NoFormatInfo(FALSE)
    [] format = "bc1-rgba-unorm" ->
         FormatInfo("texture-compression-bc", "float", "basic", 4, 4, 8, 4)
    [] format = "bc1-rgba-unorm-srgb" ->
         FormatInfo("texture-compression-bc", "float", "basic", 4, 4, 8, 4)
    [] format = "etc2-rgb8unorm-srgb" ->
         FormatInfo("texture-compression-etc2", "float", "basic", 4, 4, 8, 3)
    [] format = "astc-4x4-unorm-srgb" ->
         FormatInfo("texture-compression-astc", "float", "basic", 4, 4, 16, 4)
    [] format = "astc-5x4-unorm" ->
         FormatInfo("texture-compression-astc", "float", "basic", 5, 4, 16, 4)
    [] OTHER -> NoFormatInfo(TRUE)

textureDimensionArrayLayerCount_Always1(texture) == 1

textureDimensionArrayLayerCount(texture) ==
  CASE texture.dimension \in {"1d", "3d"} -> 1
    [] texture.dimension \in {"undefined", "2d"} ->
         OrElse(texture.size.depthOrArrayLayers, 1)

\* normalizeExtent3D: the array form [w, h, d] and the dictionary form
\* give the same three fields; a missing element is an absent field.
normalizeExtent3D(size) ==
  [width |-> size.width, height |-> size.height,
   depthOrArrayLayers |-> size.depthOrArrayLayers]

extent3DPhysicalSize_RoundDown(size, format) ==
  LET blockWidth == describeTextureFormat(format).blockDimensions[1]
      blockHeight == describeTextureFormat(format).blockDimensions[2]
      nSize == normalizeExtent3D(size)
      width == (nSize.width \div blockWidth) * blockWidth
      height == (OrElse(nSize.height, 1) \div blockHeight) * blockHeight
  IN [width |-> width, height |-> height,
      depthOrArrayLayers |-> nSize.depthOrArrayLayers]

extent3DPhysicalSize(size, format) ==
  LET blockWidth == describeTextureFormat(format).blockDimensions[1]
      blockHeight == describeTextureFormat(format).blockDimensions[2]
      nSize == normalizeExtent3D(size)
      width == ((nSize.width + blockWidth - 1) \div blockWidth) * blockWidth
      height ==
        ((OrElse(nSize.height, 1) + blockHeight - 1) \div blockHeight)
          * blockHeight
  IN [width |-> width, height |-> height,
      depthOrArrayLayers |-> nSize.depthOrArrayLayers]

extent3DMipLevelSize_DepthNotHalved(size, level, is3D) ==
  LET nSize == normalizeExtent3D(size)
  IN [height |-> Max(1, ShiftRight(nSize.width, level)),
      width |-> Max(1, ShiftRight(OrElse(nSize.height, 1), level)),
      depthOrArrayLayers |-> OrElse(nSize.depthOrArrayLayers, 1)]

\* The source assigns the shifted width to height and the shifted height
\* to width.
extent3DMipLevelSize(size, level, is3D) ==
  LET nSize == normalizeExtent3D(size)
  IN [height |-> Max(1, ShiftRight(nSize.width, level)),
      width |-> Max(1, ShiftRight(OrElse(nSize.height, 1), level)),
      depthOrArrayLayers |->
        IF is3D
        THEN Max(1, ShiftRight(OrElse(nSize.depthOrArrayLayers, 1), level))
        ELSE OrElse(nSize.depthOrArrayLayers, 1)]

\* textureMipLevelSize: undefined for a level beyond the mip chain; the loop
\* of createTextureWithData only asks for levels below mipLevelCount.
textureMipLevelSize(desc, level) ==
  extent3DMipLevelSize(desc.size, level, desc.dimension = "3d")

endOffsetOf_NoAdvance(offset, dataSize) == dataSize

\* const endOffset = binaryOffset + dataSize;
endOffsetOf(offset, dataSize) == offset + dataSize

regionWrite_BytesPerRowOfTexels(desc, info, l, m, offset, len) ==
  LET level == textureMipLevelSize(desc, m)
      mipSize ==
        IF desc.dimension # "3d"
        THEN [level EXCEPT !.depthOrArrayLayers = 1]
        ELSE level
      mipPhysical == extent3DPhysicalSize(mipSize, desc.format)
      heightBlocks == mipPhysical.height \div info.blockDimensions[2]
      bytesPerRow == mipPhysical.width * info.blockSize
      dataSize == bytesPerRow * heightBlocks * mipSize.depthOrArrayLayers
      endOffset == endOffsetOf(offset, dataSize)
  IN [mipLevel |-> m,
      origin |-> [x |-> 0, y |-> 0, z |-> l],
      dataBegin |-> offset,
      dataEnd |-> endOffset,
      sliceLength |-> Max(Min(endOffset, len) - Min(offset, len), 0),
      bytesPerRow |-> bytesPerRow,
      rowsPerImage |-> heightBlocks,
      size |-> mipPhysical,
      mipSize |-> mipSize]

\* The writeTexture call of one iteration of the loops (lines 563-597).
regionWrite(desc, info, l, m, offset, len) ==
  LET level == textureMipLevelSize(desc, m)
      mipSize ==
        IF desc.dimension # "3d"
        THEN [level EXCEPT !.depthOrArrayLayers = 1]
        ELSE level
      mipPhysical == extent3DPhysicalSize(mipSize, desc.format)
      widthBlocks == mipPhysical.width \div info.blockDimensions[1]
      heightBlocks == mipPhysical.height \div info.blockDimensions[2]
      bytesPerRow == widthBlocks * info.blockSize
      dataSize == bytesPerRow * heightBlocks * mipSize.depthOrArrayLayers
      endOffset == endOffsetOf(offset, dataSize)
  IN [mipLevel |-> m,
      origin |-> [x |-> 0, y |-> 0, z |-> l],
      dataBegin |-> offset,
      dataEnd |-> endOffset,
      sliceLength |-> Max(Min(endOffset, len) - Min(offset, len), 0),
      bytesPerRow |-> bytesPerRow,
      rowsPerImage |-> heightBlocks,
      size |-> mipPhysical,
      mipSize |-> mipSize]

\* The bytes a descriptor makes the loops ask of data.
RECURSIVE RequiredBytes(_, _, _, _)
RequiredBytes(desc, info, l, m) ==
  IF l >= textureDimensionArrayLayerCount(desc) \/ ~info.defined
     \/ OrElse(desc.mipLevelCount, 1) <= 0
  THEN 0
  ELSE LET w == regionWrite(desc, info, l, m, 0, 0)
           last == m + 1 >= OrElse(desc.mipLevelCount, 1)
       IN w.dataEnd
            + RequiredBytes(desc, info, IF last THEN l + 1 ELSE l,
                            IF last THEN 0 ELSE m + 1)

\* The descriptors the model draws.
TextureSizes ==
  {[width |-> wh[1], height |-> wh[2], depthOrArrayLayers |-> d] :
     wh \in {<<1, Absent>>, <<6, 3>>, <<5, 12>>, <<128, 128>>},
     d \in {Absent} \cup (1..MaxDepth)}
TextureFormats ==
  {"rgba8unorm", "bc1-rgba-unorm", "astc-5x4-unorm", "stencil8",
   "not-a-format"}
TextureDescriptors ==
  {[size |-> sz, dimension |-> dim, mipLevelCount |-> mips, format |-> f,
    usage |-> {"TEXTURE_BINDING"}] :
     sz \in TextureSizes,
     dim \in {"undefined", "1d", "2d", "3d"},
     mips \in {Absent} \cup (1..MaxMips),
     f \in TextureFormats}

\* The lengths of data the model draws for a descriptor: what the loops
\* will ask for, more, and less.
DataLens(desc) ==
  LET need == RequiredBytes(desc, describeTextureFormat(desc.format), 0, 0)
  IN {need, need + 3, need \div 2}

\* createTextureWithData up to its loops: the usage of the caller's
\* descriptor gets COPY_DST, the texture is created, and the layer count
\* and the format are looked up (which throws for an identifier that has
\* no case).
createTextureWithData ==
  \E desc \in TextureDescriptors :
    \E len \in DataLens(desc) :
      /\ texPc = "idle"
      /\ passedDescriptor' = desc
      /\ descriptor' = [desc EXCEPT !.usage = @ \cup {"COPY_DST"}]
      /\ dataLen' = len
      /\ layerIterations' = textureDimensionArrayLayerCount(desc)
      /\ formatInfo' = describeTextureFormat(desc.format)
      /\ texPc' = IF describeTextureFormat(desc.format).throws
                  THEN "threw" ELSE "loop"
      /\ layer' = 0
      /\ mip' = 0
      /\ binaryOffset' = 0
      /\ writes' = << >>
      /\ UNCHANGED <<rowVars, biVars, capVars, fwVars, legacyVars, hcVars,
                     boidsVars, gdVars, hexVars, skyVars>>

mipCount == OrElse(descriptor.mipLevelCount, 1)

loopDone == layer >= layerIterations \/ mipCount <= 0

\* One iteration of the inner loop: one writeTexture call. With a format
\* whose block dimensions are undefined, extent3DPhysicalSize throws.
writeRegion ==
  /\ texPc = "loop"
  /\ ~loopDone
  /\ IF ~formatInfo.defined
     THEN /\ texPc' = "threw"
          /\ UNCHANGED <<layer, mip, binaryOffset, writes>>
     ELSE LET w == regionWrite(descriptor, formatInfo, layer, mip,
                               binaryOffset, dataLen)
              last == mip + 1 >= mipCount
          IN /\ writes' = Append(writes, w)
             /\ binaryOffset' = w.dataEnd
             /\ mip' = IF last THEN 0 ELSE mip + 1
             /\ layer' = IF last THEN layer + 1 ELSE layer
             /\ UNCHANGED texPc
  /\ UNCHANGED <<descriptor, passedDescriptor, dataLen, layerIterations,
                 formatInfo>>
  /\ UNCHANGED <<rowVars, biVars, capVars, fwVars, legacyVars, hcVars,
                 boidsVars, gdVars, hexVars, skyVars>>

\* return texture;
returnTexture ==
  /\ texPc = "loop"
  /\ loopDone
  /\ texPc' = "returned"
  /\ UNCHANGED <<descriptor, passedDescriptor, dataLen, layerIterations,
                 formatInfo, layer, mip, binaryOffset, writes>>
  /\ UNCHANGED <<rowVars, biVars, capVars, fwVars, legacyVars, hcVars,
                 boidsVars, gdVars, hexVars, skyVars>>

(***************************************************************************)
(* Framework (src/framework.ts)                                            *)
(***************************************************************************)

\* The errors an uncapturederror event can carry.
GPUErrors == {"GPUValidationError", "GPUOutOfMemoryError"}

NoRejection == [kind |-> "none", errors |-> << >>]

\* constructor(dimensions, device): the fields are set and the listener of
\* "uncapturederror" is registered; errors starts empty.
FrameworkNew ==
  /\ fwPc = "none"
  /\ \E d \in CaptureDimensions : fwDimensions' = d
  /\ errors' = << >>
  /\ fwDelivered' = << >>
  /\ fwPc' = "constructed"
  /\ UNCHANGED <<fwLog, fwSubmitted, fwGpuDone, fwMapState, fwRowsRead,
                 fwRejection>>
  /\ UNCHANGED <<rowVars, biVars, capVars, texVars, legacyVars, hcVars,
                 boidsVars, gdVars, hexVars, skyVars>>

listenerPush_Front(errs, e) == <<e>> \o errs

\* (e) => { this.errors.push(e.error); }
listenerPush(errs, e) == Append(errs, e)

\* The device dispatches an uncapturederror event and the listener runs.
\* The event loop can do so whenever no code of the program is running.
uncapturederror ==
  /\ fwPc # "none"
  /\ Len(errors) < MaxErrors
  /\ \E e \in GPUErrors :
       /\ fwDelivered' = Append(fwDelivered, e)
       /\ errors' = listenerPush(errors, e)
  /\ UNCHANGED <<fwPc, fwDimensions, fwLog, fwSubmitted, fwGpuDone,
                 fwMapState, fwRowsRead, fwRejection>>
  /\ UNCHANGED <<rowVars, biVars, capVars, texVars, legacyVars, hcVars,
                 boidsVars, gdVars, hexVars, skyVars>>

\* renderPng() is called and runs to `await this.init()`; a run starts with
\* a capture of its own.
renderPng ==
  /\ fwPc \in {"constructed", "resolved", "rejected"}
  /\ fwPc' = "awaitInit"
  /\ fwLog' = << >>
  /\ fwSubmitted' = FALSE
  /\ fwGpuDone' = FALSE
  /\ fwMapState' = "unmapped"
  /\ fwRowsRead' = 0
  /\ fwRejection' = NoRejection
  /\ UNCHANGED <<fwDimensions, fwDelivered, errors>>
  /\ UNCHANGED <<rowVars, biVars, capVars, texVars, legacyVars, hcVars,
                 boidsVars, gdVars, hexVars, skyVars>>

stepsAfterInit_SubmitBeforeCopy == <<"render", "submit", "copyToBuffer">>

\* What renderPng does between the two awaits, in the order of its
\* statements: this.render(encoder, view); copyToBuffer(encoder, ...);
\* this.device.queue.submit([encoder.finish()]).
stepsAfterInit == <<"render", "copyToBuffer", "submit">>

\* this.init() has resolved: renderPng creates the capture and the encoder,
\* records, submits and calls createPng, which runs to
\* `await buffer.mapAsync(1)`.
initResolved ==
  /\ fwPc = "awaitInit"
  /\ fwLog' = fwLog \o <<"init">> \o stepsAfterInit
  /\ fwSubmitted' = TRUE
  /\ fwMapState' = "pending"
  /\ fwPc' = "awaitMapAsync"
  /\ UNCHANGED <<fwDimensions, fwDelivered, errors, fwGpuDone, fwRowsRead,
                 fwRejection>>
  /\ UNCHANGED <<rowVars, biVars, capVars, texVars, legacyVars, hcVars,
                 boidsVars, gdVars, hexVars, skyVars>>

\* The device executes the submitted command buffer.
deviceExecutes ==
  /\ fwSubmitted
  /\ ~fwGpuDone
  /\ fwGpuDone' = TRUE
  /\ UNCHANGED <<fwPc, fwDimensions, fwDelivered, errors, fwLog, fwSubmitted,
                 fwMapState,
                 fwRowsRead, fwRejection>>
  /\ UNCHANGED <<rowVars, biVars, capVars, texVars, legacyVars, hcVars,
                 boidsVars, gdVars, hexVars, skyVars>>

\* mapAsync resolves once the work submitted before it is done; createPng
\* then reads the mapped range row by row (i = 0 .. height - 1), encodes,
\* writes the file and unmaps.
mapAsyncResolved ==
  /\ fwPc = "awaitMapAsync"
  /\ fwMapState = "pending"
  /\ fwGpuDone
  /\ fwLog' = fwLog \o <<"mapAsync", "unpack", "unmap">>
  /\ fwRowsRead' = fwDimensions.height
  /\ fwMapState' = "unmapped"
  /\ fwPc' = "awaitCreatePng"
  /\ UNCHANGED <<fwDimensions, fwDelivered, errors, fwSubmitted, fwGpuDone,
                 fwRejection>>
  /\ UNCHANGED <<rowVars, biVars, capVars, texVars, legacyVars, hcVars,
                 boidsVars, gdVars, hexVars, skyVars>>

\* createPng has resolved: if (this.errors.length > 0) throw new
\* AggregateError(this.errors, "uncaught gpu errors").
createPngResolved ==
  /\ fwPc = "awaitCreatePng"
  /\ IF Len(errors) > 0
       THEN /\ fwPc' = "rejected"
            /\ fwRejection' = [kind |-> "AggregateError", errors |-> errors]
       ELSE /\ fwPc' = "resolved"
            /\ fwRejection' = NoRejection
  /\ UNCHANGED <<fwDimensions, fwDelivered, errors, fwLog, fwSubmitted,
                 fwGpuDone,
                 fwMapState, fwRowsRead>>
  /\ UNCHANGED <<rowVars, biVars, capVars, texVars, legacyVars, hcVars,
                 boidsVars, gdVars, hexVars, skyVars>>

(***************************************************************************)
(* The older createBufferInit (src/unnamed/part_005) and the simulation    *)
(* parameter buffer of boids (src/boids/boids.js)                          *)
(***************************************************************************)

\* const unpaddedSize = contents.byteLength;
\* const padding = 4 - unpaddedSize % 4;
\* const paddedSize = padding + unpaddedSize;
\* All of it is arithmetic on JavaScript numbers, which is exact here.
legacyPaddedSizeOf(unpaddedSize) ==
  LET padding == 4 - (unpaddedSize.lo % 4)
  IN LimbsAdd(unpaddedSize, padding)

\* The older createBufferInit(device, descriptor); boids computes the size
\* of its buffer of 7 floats (28 bytes) with the same three statements.
legacyCreateBufferInit ==
  \E n \in ContentsLens :
    /\ legacyContentsLen' = n
    /\ legacyBufferSize' = legacyPaddedSizeOf(n)
    /\ legacyPc' = "returned"
    /\ UNCHANGED <<rowVars, biVars, capVars, texVars, fwVars, hcVars,
                   boidsVars, gdVars, hexVars, skyVars>>

(***************************************************************************)
(* hello-compute (src/hello-compute/mod.ts and the later program with the  *)
(* overflow guard, src/unnamed/part_000)                                   *)
(***************************************************************************)

\* u32 values are held in limbs. The exact value of 3n + 1 needs more than
\* 32 bits: its high limb can exceed 65535.
Wide3n1(n) ==
  LET t == 3 * n.lo + 1
  IN [hi |-> 3 * n.hi + (t \div Limb), lo |-> t % Limb]

\* The value a u32 variable holds after the assignment of an exact value.
TruncU32(x) == [hi |-> x.hi % Limb, lo |-> x.lo]

\* n / 2u
Half(n) ==
  [hi |-> n.hi \div 2, lo |-> (n.lo \div 2) + (n.hi % 2) * (Limb \div 2)]

GeU32(n, m) == n.hi > m.hi \/ (n.hi = m.hi /\ n.lo >= m.lo)

\* return 4294967295u;   // 0xffffffffu
OVERFLOW == U32(65535, 65535)

\* if (n >= 1431655765u)   // 0x55555555u
OverflowThreshold == U32(21845, 21845)

\* What one pass through `loop { ... }` of collatz_iterations does to the
\* invocation [n, i]: "break" (return i), "return" (the sentinel, in the
\* guarded shader) or "continue" with the new n and i.
LoopPass(kind, n, i) == [kind |-> kind, n |-> n, i |-> i]

loopBody_NoGuard(checked, n, i) ==
  IF n.hi = 0 /\ n.lo <= 1 THEN LoopPass("break", n, i)
  ELSE IF n.lo % 2 = 0 THEN LoopPass("continue", Half(n), i + 1)
  ELSE LoopPass("continue", TruncU32(Wide3n1(n)), i + 1)

loopBody(checked, n, i) ==
  IF n.hi = 0 /\ n.lo <= 1 THEN LoopPass("break", n, i)
  ELSE IF n.lo % 2 = 0 THEN LoopPass("continue", Half(n), i + 1)
  ELSE IF checked /\ GeU32(n, OverflowThreshold)
    THEN LoopPass("return", n, i)
  ELSE LoopPass("continue", TruncU32(Wide3n1(n)), i + 1)

\* The rule on the integers: n even: n/2; n odd: 3n+1.
RuleOnIntegers(x) == IF x.lo % 2 = 0 THEN Half(x) ELSE Wide3n1(x)

\* Number.prototype.toString() of a u32: its decimal digits.
RECURSIVE toString(_)
toString(v) ==
  IF v.hi = 0 /\ v.lo < 10 THEN <<v.lo>>
  ELSE LET r == v.hi % 10
           q == [hi |-> v.hi \div 10, lo |-> (r * Limb + v.lo) \div 10]
       IN Append(toString(q), (r * Limb + v.lo) % 10)

\* An element as console.log shows it: the word OVERFLOW or a number.
Printed(overflow, digits) == [overflow |-> overflow, digits |-> digits]

\* console.log(new Uint32Array(data)) of mod.ts shows every element as a
\* number; the later program maps
\* (n) => n === OVERFLOW ? "OVERFLOW" : n.toString().
printedElement(checked, n) ==
  IF checked /\ n = OVERFLOW THEN Printed(TRUE, << >>)
  ELSE Printed(FALSE, toString(n))

\* The numbers the model gives to the program: small ones, 27 and 295, and
\* the ones around the overflow threshold and the top of u32.
CollatzInputs ==
  {U32(0, k) : k \in 0..MaxN}
    \cup {U32(0, 27), U32(0, 295), U32(21845, 21845), U32(21845, 21843),
          U32(21845, 21844), U32(32768, 0), U32(65535, 65535)}

DefaultNumbers == <<U32(0, 1), U32(0, 4), U32(0, 3), U32(0, 295)>>

\* An array in which an element that overflows stands before one that does
\* not.
MixedNumbers == <<U32(21845, 21843), U32(0, 27)>>

NumberArrays ==
  {DefaultNumbers, MixedNumbers}
    \cup UNION {[1..len -> CollatzInputs] : len \in 1..MaxNumbers}

\* The program up to queue.submit: the storage buffer holds the numbers and
\* dispatch(numbers.length) starts one invocation per element; the model
\* runs them one after the other (no invocation touches another's element).
startProgram(checked, nums) ==
  /\ hcPc = "idle"
  /\ hcChecked' = checked
  /\ numbers' = nums
  /\ hcData' = nums
  /\ hcIndex' = 1
  /\ hcN' = nums[1]
  /\ hcI' = 0
  /\ hcExact' = nums[1]
  /\ hcWrapped' = FALSE
  /\ hcEnds' = << >>
  /\ hcOutput' = << >>
  /\ hcPc' = "running"

\* src/hello-compute/mod.ts
helloCompute ==
  /\ \E nums \in NumberArrays : startProgram(FALSE, nums)
  /\ UNCHANGED <<rowVars, biVars, capVars, texVars, fwVars, legacyVars,
                 boidsVars, gdVars, hexVars, skyVars>>

\* src/unnamed/part_000
helloComputeChecked ==
  /\ \E nums \in NumberArrays : startProgram(TRUE, nums)
  /\ UNCHANGED <<rowVars, biVars, capVars, texVars, fwVars, legacyVars,
                 boidsVars, gdVars, hexVars, skyVars>>

\* One pass of the current invocation through the loop of
\* collatz_iterations; on break or return main stores the result in
\* v_indices.data[global_id.x] and the next invocation starts.
shaderLoopPass ==
  /\ hcPc = "running"
  /\ hcI < MaxCollatzSteps
  /\ LET pass == loopBody(hcChecked, hcN, hcI)
         evaluates3n1 == pass.kind = "continue" /\ hcN.lo % 2 = 1
         result == IF pass.kind = "return" THEN OVERFLOW
                   ELSE U32(pass.i \div Limb, pass.i % Limb)
         last == hcIndex = Len(numbers)
     IN IF pass.kind = "continue"
          THEN /\ hcN' = pass.n
               /\ hcI' = pass.i
               /\ hcExact' = IF hcExact.hi >= Limb THEN hcExact
                             ELSE RuleOnIntegers(hcExact)
               /\ hcWrapped' = (hcWrapped \/
                                  (evaluates3n1 /\ Wide3n1(hcN).hi >= Limb))
               /\ UNCHANGED <<hcPc, hcData, hcIndex, hcEnds>>
          ELSE /\ hcData' = [hcData EXCEPT ![hcIndex] = result]
               /\ hcEnds' = Append(hcEnds,
                                   [kind |-> pass.kind, n |-> hcN, i |-> hcI,
                                    exact |-> hcExact, wrapped |-> hcWrapped])
               /\ hcIndex' = IF last THEN hcIndex ELSE hcIndex + 1
               /\ hcN' = IF last THEN hcN ELSE numbers[hcIndex + 1]
               /\ hcExact' = IF last THEN hcExact ELSE numbers[hcIndex + 1]
               /\ hcI' = 0
               /\ hcWrapped' = FALSE
               /\ hcPc' = IF last THEN "gpuDone" ELSE "running"
  /\ UNCHANGED <<hcChecked, numbers, hcOutput>>
  /\ UNCHANGED <<rowVars, biVars, capVars, texVars, fwVars, legacyVars,
                 boidsVars, gdVars, hexVars, skyVars>>

\* copyBufferToBuffer has run and mapAsync resolves: the program logs the
\* staging buffer.
logResults ==
  /\ hcPc = "gpuDone"
  /\ hcOutput' = [k \in 1..Len(hcData) |-> printedElement(hcChecked, hcData[k])]
  /\ hcPc' = "printed"
  /\ UNCHANGED <<hcChecked, numbers, hcData, hcIndex, hcN, hcI, hcExact,
                 hcWrapped, hcEnds>>
  /\ UNCHANGED <<rowVars, biVars, capVars, texVars, fwVars, legacyVars,
                 boidsVars, gdVars, hexVars, skyVars>>

(***************************************************************************)
(* Boids (src/boids/boids.js)                                              *)
(***************************************************************************)

ParticleCounts == {1, 64, 65, 1500}
ParticlesPerGroup == {1, 64}

\* new Boids({particleCount, particlesPerGroup, dimensions}, device);
\* frameNum = 0 and the two arrays are empty.
BoidsNew ==
  /\ boidsPc = "none"
  /\ \E c \in ParticleCounts, g \in ParticlesPerGroup :
       /\ particleCount' = c
       /\ particlesPerGroup' = g
  /\ particleBuffers' = << >>
  /\ particleBindGroups' = << >>
  /\ frameNum' = 0
  /\ boidsFrames' = << >>
  /\ boidsInits' = 0
  /\ boidsPc' = "constructed"
  /\ UNCHANGED <<rowVars, biVars, capVars, texVars, fwVars, legacyVars,
                 hcVars, gdVars, hexVars, skyVars>>

otherBuffer_Same(i) == i % 2

\* particleBuffers[(i + 1) % 2]
otherBuffer(i) == (i + 1) % 2

\* binding 1 (the read-only input) and binding 2 (the storage output) of
\* the bind group the loop makes for i, from the array as it is then.
particleBindGroup(buffers, i) ==
  [input |-> buffers[i + 1], output |-> buffers[otherBuffer(i) + 1]]

\* Math.ceil(a / b) for positive integers.
Ceil(a, b) == (a + b - 1) \div b

\* init(): two loops of two iterations each push two new particle buffers
\* and then two bind groups onto the arrays. renderPng calls init on every
\* run, so the arrays can grow.
BoidsInit ==
  /\ boidsPc \in {"constructed", "initialised"}
  /\ boidsInits < MaxInits
  /\ LET created == Len(particleBuffers)
         buffers == particleBuffers \o <<created + 1, created + 2>>
     IN /\ particleBuffers' = buffers
        /\ particleBindGroups' =
             particleBindGroups
               \o <<particleBindGroup(buffers, 0),
                    particleBindGroup(buffers, 1)>>
  /\ boidsInits' = boidsInits + 1
  /\ boidsPc' = "initialised"
  /\ UNCHANGED <<particleCount, particlesPerGroup, frameNum, boidsFrames>>
  /\ UNCHANGED <<rowVars, biVars, capVars, texVars, fwVars, legacyVars,
                 hcVars, gdVars, hexVars, skyVars>>

\* render(encoder, view): the compute pass with
\* particleBindGroups[frameNum % 2], the draw from
\* particleBuffers[(frameNum + 1) % 2], then frameNum += 1.
BoidsRender ==
  /\ boidsPc = "initialised"
  /\ frameNum < MaxFrames
  /\ boidsFrames' =
       Append(boidsFrames,
              [frameNum |-> frameNum,
               bindGroup |-> particleBindGroups[(frameNum % 2) + 1],
               workGroups |-> Ceil(particleCount, particlesPerGroup),
               vertexBuffer |-> particleBuffers[((frameNum + 1) % 2) + 1],
               instances |-> particleCount])
  /\ frameNum' = frameNum + 1
  /\ UNCHANGED <<boidsPc, particleCount, particlesPerGroup, particleBuffers,
                 particleBindGroups, boidsInits>>
  /\ UNCHANGED <<rowVars, biVars, capVars, texVars, fwVars, legacyVars,
                 hcVars, gdVars, hexVars, skyVars>>

(***************************************************************************)
(* Framework.getDevice (src/framework.ts)                                  *)
(***************************************************************************)

FeatureNames ==
  {"texture-compression-bc", "texture-compression-etc2",
   "texture-compression-astc"}

\* An optional argument: undefined, or an array of feature names.
Undefined == [defined |-> FALSE, list |-> << >>]
Array(list) == [defined |-> TRUE, list |-> list]
FeatureArrays ==
  {Undefined}
    \cup {Array(l) : l \in UNION {[1..n -> FeatureNames] : n \in 0..MaxFeatures}}

\* What navigator.gpu.requestAdapter() resolves to: null, an adapter
\* without a features set, or an adapter with one.
NullAdapter == [present |-> FALSE, hasFeatures |-> FALSE, features |-> {}]
Adapters ==
  {NullAdapter, [present |-> TRUE, hasFeatures |-> FALSE, features |-> {}]}
    \cup {[present |-> TRUE, hasFeatures |-> TRUE, features |-> fs] :
            fs \in SUBSET FeatureNames}

requestedFeatures_NoFilter(required, optional, a) ==
  (IF required.defined THEN required.list ELSE << >>)
    \o (IF optional.defined THEN optional.list ELSE << >>)

\* (requiredFeatures ?? []).concat(
\*   optionalFeatures?.filter((feature) =>
\*     adapter.features ? adapter.features.has(feature) : false) ?? [])
requestedFeatures(required, optional, a) ==
  (IF required.defined THEN required.list ELSE << >>)
    \o (IF optional.defined
          THEN SelectSeq(optional.list,
                         LAMBDA feature :
                           IF a.hasFeatures THEN feature \in a.features
                           ELSE FALSE)
        ELSE << >>)

\* getDevice({requiredFeatures, optionalFeatures}) up to
\* `await navigator.gpu.requestAdapter()`.
getDevice ==
  /\ gdPc = "idle"
  /\ \E r \in FeatureArrays, o \in FeatureArrays :
       /\ requiredFeatures' = r
       /\ optionalFeatures' = o
  /\ gdPc' = "awaitAdapter"
  /\ UNCHANGED <<adapter, gdRequested, gdRequest, gdError>>
  /\ UNCHANGED <<rowVars, biVars, capVars, texVars, fwVars, legacyVars,
                 hcVars, boidsVars, hexVars, skyVars>>

\* requestAdapter has resolved: a null adapter throws, otherwise
\* adapter.requestDevice is called with the features.
adapterResolved ==
  /\ gdPc = "awaitAdapter"
  /\ \E a \in Adapters :
       /\ adapter' = a
       /\ IF ~a.present
            THEN /\ gdPc' = "threw"
                 /\ gdError' = "Could not find adapter"
                 /\ UNCHANGED <<gdRequested, gdRequest>>
            ELSE /\ gdPc' = "awaitDevice"
                 /\ gdRequested' = TRUE
                 /\ gdRequest' =
                      requestedFeatures(requiredFeatures, optionalFeatures, a)
                 /\ UNCHANGED gdError
  /\ UNCHANGED <<requiredFeatures, optionalFeatures>>
  /\ UNCHANGED <<rowVars, biVars, capVars, texVars, fwVars, legacyVars,
                 hcVars, boidsVars, hexVars, skyVars>>

\* requestDevice settles: it rejects when a requested feature is not one of
\* the adapter's, and getDevice rejects with it; otherwise the device is
\* returned.
deviceSettled ==
  /\ gdPc = "awaitDevice"
  /\ IF \A k \in 1..Len(gdRequest) : gdRequest[k] \in adapter.features
       THEN /\ gdPc' = "returned"
            /\ UNCHANGED gdError
       ELSE /\ gdPc' = "threw"
            /\ gdError' = "requestDevice rejected"
  /\ UNCHANGED <<requiredFeatures, optionalFeatures, adapter, gdRequested,
                 gdRequest>>
  /\ UNCHANGED <<rowVars, biVars, capVars, texVars, fwVars, legacyVars,
                 hcVars, boidsVars, hexVars, skyVars>>

(***************************************************************************)
(* HexTerrainMesh and HexWaterMesh (src/water/point_gen.ts)                *)
(***************************************************************************)

\* Math.floor(m / SQRT_3) for an integer m >= 0.
FloorQuotSqrt3(m) ==
  CHOOSE k \in 0..m : 3 * k * k <= m * m /\ 3 * (k + 1) * (k + 1) > m * m

\* (Math.floor(Math.floor(((4 * radius) / SQRT_3) + 1) / 2) * 2) + 1
qGivenR(radius) == (((FloorQuotSqrt3(4 * radius) + 1) \div 2) * 2) + 1

\* width is odd, so halfWidth = width / 2 and the loop variables i, j are
\* odd multiples of 1/2: the model holds 2 * i and 2 * j.
\* x = A * (xO * C45 - yO * S45) = (i - j) / 2,
\* z = B * (xO * S45 + yO * C45) = sqrt(3) * (i + j) / 2, so
\* Math.hypot(x, z) < radius is (2i - 2j)^2 + 3 (2i + 2j)^2 < 16 radius^2.
InsideRadius(i2, j2, radius) ==
  (i2 - j2) * (i2 - j2) + 3 * (i2 + j2) * (i2 + j2) < 16 * radius * radius

\* The pairs (2i, 2j) in the order of
\* for (i = -halfWidth; i <= halfWidth; i++) for (j = -halfWidth; ...).
GridInLoopOrder(width) ==
  [p \in 1..((width + 1) * (width + 1)) |->
     <<2 * ((p - 1) \div (width + 1)) - width,
       2 * ((p - 1) % (width + 1)) - width>>]

\* An array [i, j]: an object of its own (its number) with two elements.
KeyArray(id, i2, j2) == [id |-> id, i2 |-> i2, j2 |-> j2]

\* The vertex stored for (i, j): for the water mesh
\* [Math.round(x * 2.0), Math.round((z / B) * Math.sqrt(2))] = [i - j, i + j],
\* for the terrain genVertex([x, z]), held here by the same two numbers.
vertexAt(i2, j2) == <<(i2 - j2) \div 2, (i2 + j2) \div 2>>

\* The Map after the loops of the constructor: map.set([i, j], vertex) for
\* every grid point inside the radius, each with a new array as its key.
constructedMap(radius) ==
  LET inside == SelectSeq(GridInLoopOrder(qGivenR(radius)),
                          LAMBDA c : InsideRadius(c[1], c[2], radius))
  IN [k \in 1..Len(inside) |->
        [key |-> KeyArray(k, inside[k][1], inside[k][2]),
         value |-> vertexAt(inside[k][1], inside[k][2])]]

meshNew(kind) ==
  /\ hexPc = "none"
  /\ \E radius \in 1..MaxRadius :
       /\ hexRadius' = radius
       /\ vertices' = constructedMap(radius)
       /\ halfSize2' = qGivenR(radius)
       /\ hexNextKey' = Len(constructedMap(radius)) + 1
  /\ hexKind' = kind
  /\ hexPc' = "constructed"
  /\ UNCHANGED <<hexI2, hexJ2, hexLookups, hexHanded>>

\* new HexTerrainMesh(radius, genVertex)
HexTerrainMesh ==
  /\ meshNew("terrain")
  /\ UNCHANGED <<rowVars, biVars, capVars, texVars, fwVars, legacyVars,
                 hcVars, boidsVars, gdVars, skyVars>>

\* new HexWaterMesh(radius)
HexWaterMesh ==
  /\ meshNew("water")
  /\ UNCHANGED <<rowVars, biVars, capVars, texVars, fwVars, legacyVars,
                 hcVars, boidsVars, gdVars, skyVars>>

Missing == [found |-> FALSE, value |-> <<0, 0>>]

\* Map.prototype.get(key): keys are compared with SameValueZero, and two
\* arrays are the same value only when they are the same object.
MapGet(map, key) ==
  IF \E e \in 1..Len(map) : map[e].key.id = key.id
    THEN [found |-> TRUE,
          value |-> map[CHOOSE e \in 1..Len(map) :
                          map[e].key.id = key.id].value]
  ELSE Missing

\* surroundingHexagonalPoints(x, y), as new arrays numbered from id on, and
\* newPoints: the six of them and the first once more.
surroundingHexagonalPoints(id, i2, j2) ==
  <<KeyArray(id, i2, j2 - 2), KeyArray(id + 1, i2 + 2, j2 - 2),
    KeyArray(id + 2, i2 + 2, j2), KeyArray(id + 3, i2, j2 + 2),
    KeyArray(id + 4, i2 - 2, j2 + 2), KeyArray(id + 5, i2 - 2, j2)>>

\* surroundingPointValuesIter: the windows of two neighbours whose values
\* are both found, flattened; the number of values handed to forEach.
surroundingPointValues(map, id, i2, j2) ==
  LET points == surroundingHexagonalPoints(id, i2, j2)
      newPoints == points \o <<points[1]>>
      both == {w \in 1..6 : /\ MapGet(map, newPoints[w]).found
                            /\ MapGet(map, newPoints[w + 1]).found}
  IN 2 * Cardinality(both)

\* makeBufferData() / generatePoints() up to the first test of the loops.
makeBufferData ==
  /\ hexPc = "constructed"
  /\ hexI2' = 0 - halfSize2
  /\ hexJ2' = 0 - halfSize2
  /\ hexLookups' = << >>
  /\ hexHanded' = 0
  /\ hexPc' = "loop"
  /\ UNCHANGED <<hexKind, hexRadius, vertices, halfSize2, hexNextKey>>
  /\ UNCHANGED <<rowVars, biVars, capVars, texVars, fwVars, legacyVars,
                 hcVars, boidsVars, gdVars, skyVars>>

\* One pass through the body of the inner loop, and j++ (with i++ and a
\* new j at the end of a row). generatePoints looks up only the points
\* with (i - j) % 3 === 0.
meshLoopPass ==
  /\ hexPc = "loop"
  /\ hexI2 <= halfSize2
  /\ LET looksUp ==
           hexKind = "terrain" \/ JsRem((hexI2 - hexJ2) \div 2, 3) = 0
         p == MapGet(vertices, KeyArray(hexNextKey, hexI2, hexJ2))
     IN /\ hexLookups' =
             IF looksUp
               THEN Append(hexLookups,
                           [i2 |-> hexI2, j2 |-> hexJ2, found |-> p.found])
             ELSE hexLookups
        /\ hexHanded' =
             IF looksUp /\ p.found
               THEN hexHanded
                      + surroundingPointValues(vertices, hexNextKey + 1,
                                               hexI2, hexJ2)
             ELSE hexHanded
        /\ hexNextKey' =
             IF ~looksUp THEN hexNextKey
             ELSE IF p.found THEN hexNextKey + 7 ELSE hexNextKey + 1
  /\ IF hexJ2 + 2 <= halfSize2
       THEN /\ hexJ2' = hexJ2 + 2
            /\ UNCHANGED hexI2
       ELSE /\ hexJ2' = 0 - halfSize2
            /\ hexI2' = hexI2 + 2
  /\ UNCHANGED <<hexPc, hexKind, hexRadius, vertices, halfSize2>>
  /\ UNCHANGED <<rowVars, biVars, capVars, texVars, fwVars, legacyVars,
                 hcVars, boidsVars, gdVars, skyVars>>

\* return vertices;
meshReturn ==
  /\ hexPc = "loop"
  /\ hexI2 > halfSize2
  /\ hexPc' = "returned"
  /\ UNCHANGED <<hexKind, hexRadius, vertices, halfSize2, hexNextKey, hexI2,
                 hexJ2, hexLookups, hexHanded>>
  /\ UNCHANGED <<rowVars, biVars, capVars, texVars, fwVars, legacyVars,
                 hcVars, boidsVars, gdVars, skyVars>>

(***************************************************************************)
(* Skybox (src/skybox/mod.ts)                                              *)
(***************************************************************************)

\* The features a device can have: the three the example asks for, and
\* others a device given to the constructor may have.
DeviceFeatureNames ==
  FeatureNames
    \cup {"depth-clamping", "depth24unorm-stencil8",
          "pipeline-statistics-query", "timestamp-query"}

skyboxFormatOf_NoBcCheck(features) ==
  IF "texture-compression-astc" \in features /\ FALSE
    THEN "astc-4x4-unorm-srgb"
  ELSE IF "texture-compression-etc2" \in features
    THEN "etc2-rgb8unorm-srgb"
  ELSE "bc1-rgba-unorm-srgb"

\* if (this.device.features.has("texture-compression-astc") && false) ...
\* else if (... "texture-compression-etc2") ... else if (...
\* "texture-compression-bc") ... else ...
skyboxFormatOf(features) ==
  IF "texture-compression-astc" \in features /\ FALSE
    THEN "astc-4x4-unorm-srgb"
  ELSE IF "texture-compression-etc2" \in features
    THEN "etc2-rgb8unorm-srgb"
  ELSE IF "texture-compression-bc" \in features
    THEN "bc1-rgba-unorm-srgb"
  ELSE "bgra8unorm-srgb"

\* init() of Skybox, on a device with some set of features: the format of
\* the texture given to createTextureWithData.
SkyboxInit ==
  /\ \E features \in SUBSET DeviceFeatureNames :
       /\ deviceFeatures' = features
       /\ skyboxFormat' = skyboxFormatOf(features)
  /\ skyPc' = "initialised"
  /\ UNCHANGED <<rowVars, biVars, capVars, texVars, fwVars, legacyVars,
                 hcVars, boidsVars, gdVars, hexVars>>

(***************************************************************************)
(* Specifications                                                          *)
(***************************************************************************)

Init ==
  /\ rowPc = "idle"
  /\ rowWidth = 0
  /\ rowPadding = [unpadded |-> 0, padded |-> 0]
  /\ biPc = "idle"
  /\ contentsLen = U32(0, 0)
  /\ bufferSize = 0
  /\ passedContents = << >>
  /\ contents = << >>
  /\ bufferData = << >>
  /\ bufferMapped = FALSE
  /\ capPc = "start"
  /\ dimensions = [width |-> 0, height |-> 0]
  /\ captureSize = 0
  /\ gpuBuffer = << >>
  /\ texels = << >>
  /\ commands = << >>
  /\ gpuDone = FALSE
  /\ gpuErrors = 0
  /\ pngDimensions = [width |-> 0, height |-> 0]
  /\ pngOutput = << >>
  /\ texPc = "idle"
  /\ descriptor =
       [size |-> [width |-> 1, height |-> Absent,
                  depthOrArrayLayers |-> Absent],
        dimension |-> "undefined", mipLevelCount |-> Absent,
        format |-> "rgba8unorm", usage |-> {}]
  /\ passedDescriptor = descriptor
  /\ dataLen = 0
  /\ layerIterations = 0
  /\ formatInfo = describeTextureFormat("rgba8unorm")
  /\ layer = 0
  /\ mip = 0
  /\ binaryOffset = 0
  /\ writes = << >>
  /\ fwPc = "none"
  /\ fwDimensions = [width |-> 0, height |-> 0]
  /\ fwDelivered = << >>
  /\ errors = << >>
  /\ fwLog = << >>
  /\ fwSubmitted = FALSE
  /\ fwGpuDone = FALSE
  /\ fwMapState = "unmapped"
  /\ fwRowsRead = 0
  /\ fwRejection = NoRejection
  /\ legacyPc = "idle"
  /\ legacyContentsLen = U32(0, 0)
  /\ legacyBufferSize = U32(0, 0)
  /\ hcPc = "idle"
  /\ hcChecked = FALSE
  /\ numbers = << >>
  /\ hcData = << >>
  /\ hcIndex = 0
  /\ hcN = U32(0, 0)
  /\ hcI = 0
  /\ hcExact = U32(0, 0)
  /\ hcWrapped = FALSE
  /\ hcEnds = << >>
  /\ hcOutput = << >>
  /\ boidsPc = "none"
  /\ particleCount = 0
  /\ particlesPerGroup = 1
  /\ particleBuffers = << >>
  /\ particleBindGroups = << >>
  /\ frameNum = 0
  /\ boidsInits = 0
  /\ boidsFrames = << >>
  /\ gdPc = "idle"
  /\ requiredFeatures = Undefined
  /\ optionalFeatures = Undefined
  /\ adapter = NullAdapter
  /\ gdRequested = FALSE
  /\ gdRequest = << >>
  /\ gdError = ""
  /\ hexPc = "none"
  /\ hexKind = "terrain"
  /\ hexRadius = 0
  /\ vertices = << >>
  /\ halfSize2 = 0
  /\ hexNextKey = 1
  /\ hexI2 = 0
  /\ hexJ2 = 0
  /\ hexLookups = << >>
  /\ hexHanded = 0
  /\ skyPc = "constructed"
  /\ deviceFeatures = {}
  /\ skyboxFormat = "undefined"

NextRowPadding == CallGetRowPadding
SpecRowPadding == Init /\ [][NextRowPadding]_vars

NextBufferInit == createBufferInit
SpecBufferInit == Init /\ [][NextBufferInit]_vars

NextCapture ==
  \/ createCapture
  \/ render
  \/ copyToBuffer
  \/ submit
  \/ gpuExecute
  \/ createPngCall
  \/ createPngResume
SpecCapture == Init /\ [][NextCapture]_vars

NextTexture ==
  \/ createTextureWithData
  \/ writeRegion
  \/ returnTexture
SpecTexture == Init /\ [][NextTexture]_vars

NextFramework ==
  \/ FrameworkNew
  \/ renderPng
  \/ initResolved
  \/ deviceExecutes
  \/ mapAsyncResolved
  \/ createPngResolved
  \/ uncapturederror
SpecFramework == Init /\ [][NextFramework]_vars

NextLegacyBufferInit == legacyCreateBufferInit
SpecLegacyBufferInit == Init /\ [][NextLegacyBufferInit]_vars

NextHelloCompute ==
  \/ helloCompute
  \/ helloComputeChecked
  \/ shaderLoopPass
  \/ logResults
SpecHelloCompute == Init /\ [][NextHelloCompute]_vars

NextBoids ==
  \/ BoidsNew
  \/ BoidsInit
  \/ BoidsRender
SpecBoids == Init /\ [][NextBoids]_vars

NextGetDevice ==
  \/ getDevice
  \/ adapterResolved
  \/ deviceSettled
SpecGetDevice == Init /\ [][NextGetDevice]_vars

NextHexMesh ==
  \/ HexTerrainMesh
  \/ HexWaterMesh
  \/ makeBufferData
  \/ meshLoopPass
  \/ meshReturn
SpecHexMesh == Init /\ [][NextHexMesh]_vars

NextSkybox == SkyboxInit
SpecSkybox == Init /\ [][NextSkybox]_vars

(***************************************************************************)
(* Claims about getRowPadding                                              *)
(***************************************************************************)

\* C1: for every width >= 0, getRowPadding(width) returns unpadded = 4*width
\* and a padded value that is a multiple of 256 and at least unpadded.
RowPaddingAligned ==
  rowPc = "returned" =>
    /\ rowPadding.unpadded = 4 * rowWidth
    /\ rowPadding.padded % 256 = 0
    /\ rowPadding.padded >= rowPadding.unpadded

\* A call with a row that is not aligned (width 100: 400 bytes).
RowPaddingAlignedWitness ==
  /\ rowPc = "returned"
  /\ rowWidth = 100
  /\ rowPadding.unpadded = 400
  /\ rowPadding.padded > rowPadding.unpadded

\* C2: getRowPadding adds no unnecessary padding: padded is the least
\* multiple of 256 that is >= unpadded, so padded - unpadded < 256, and
\* padded = unpadded when unpadded is a multiple of 256.
RowPaddingMinimal ==
  rowPc = "returned" =>
    /\ rowPadding.padded - rowPadding.unpadded < 256
    /\ \A m \in 0..(MaxWidth + 1) :
         (m * 256 >= rowPadding.unpadded) => (rowPadding.padded <= m * 256)
    /\ (rowPadding.unpadded % 256 = 0 =>
          rowPadding.padded = rowPadding.unpadded)

\* A call with a row that is already aligned and not empty (width 64).
RowPaddingMinimalWitness ==
  /\ rowPc = "returned"
  /\ rowWidth = 64
  /\ rowPadding.unpadded = 256
  /\ rowPadding.padded = 256

(***************************************************************************)
(* Claims about the size createBufferInit requests                         *)
(***************************************************************************)

\* C3: for every contents byte length n in 0..2^32-1, the requested buffer
\* size s is at least 4, a multiple of 4 and at least n.
BufferInitSizeCoversContents ==
  biPc # "idle" =>
    /\ bufferSize >= 4
    /\ bufferSize % 4 = 0
    /\ GeLen(bufferSize, contentsLen)

\* n rounded up to a multiple of 4, exactly (limbs).
RoundUp4(n) == LimbsAdd(n, (4 - (n.lo % 4)) % 4)

IntLimbs(s) == [hi |-> s \div Limb, lo |-> s % Limb]

\* C4: the requested size equals max(roundUpToMultiple(n, 4), 4): size - n < 4
\* for n >= 1 and size = n when n >= 4 is a multiple of 4.
BufferInitSizeIsRoundUp ==
  biPc # "idle" =>
    /\ IntLimbs(bufferSize) =
         (IF contentsLen = U32(0, 0) THEN U32(0, 4) ELSE RoundUp4(contentsLen))
    /\ (contentsLen.lo % 4 = 0 /\ contentsLen # U32(0, 0) =>
          IntLimbs(bufferSize) = contentsLen)

(***************************************************************************)
(* Claims about the capture read-back                                      *)
(***************************************************************************)

\* The least multiple of 256 that is >= 4 * width, by plain arithmetic.
PaddedRowBytes(w) == ((4 * w + 255) \div 256) * 256

\* C5: the row unpacking of createPng produces exactly unpadded * height
\* bytes, and byte j of row i of the output is byte i * padded + j of the
\* input, for every row i < height and every j < unpadded that the input
\* holds: no padding byte of the input appears in the output.
UnpackCopiesRows ==
  capPc = "done" =>
    LET unpadded == 4 * pngDimensions.width
        padded == PaddedRowBytes(pngDimensions.width)
    IN /\ Len(pngOutput) = unpadded * pngDimensions.height
       /\ \A i \in 0..(pngDimensions.height - 1) :
            \A j \in 0..(unpadded - 1) :
              i * padded + j < Len(gpuBuffer) =>
                pngOutput[i * unpadded + j + 1] = gpuBuffer[i * padded + j + 1]

\* createPng has unpacked three rows of two pixels from a buffer that holds
\* them, with padding bytes that are not 0 between the rows.
UnpackCopiesRowsWitness ==
  /\ capPc = "done"
  /\ pngDimensions = [width |-> 2, height |-> 3]
  /\ Len(gpuBuffer) = 3 * 256
  /\ gpuBuffer[9] = 255
  /\ gpuBuffer[513] # 0
  /\ pngOutput[17] = gpuBuffer[513]

\* C6: round trip. When the capture and createPng work on the same
\* dimensions, the rows the copy padded to the stride of getRowPadding come
\* out of createPng exactly as they were in the texture, whatever the
\* padding bytes contain.
UnpackRoundTrip ==
  (capPc = "done" /\ pngDimensions = dimensions) => pngOutput = texels

\* A round trip of two rows longer than one alignment step (65 pixels: 260
\* bytes in a stride of 512), with padding bytes that are not 0.
UnpackRoundTripWitness ==
  /\ capPc = "done"
  /\ pngDimensions = dimensions
  /\ dimensions = [width |-> 65, height |-> 2]
  /\ Len(texels) = 520
  /\ gpuBuffer[261] = 170
  /\ pngOutput = texels

\* C7: createCapture allocates exactly padded(width) * height bytes and
\* copyToBuffer, for the same dimensions, records one copy with bytesPerRow
\* = padded(width), rowsPerImage = 0 and extent = dimensions, so the last
\* byte the copy addresses, (height-1) * padded + unpadded, is in the buffer.
CaptureCopyFitsBuffer ==
  capPc \in {"recorded", "submitted", "mapping", "done"} =>
    LET unpadded == 4 * dimensions.width
        padded == PaddedRowBytes(dimensions.width)
    IN /\ captureSize = padded * dimensions.height
       /\ Len(gpuBuffer) = captureSize
       /\ Len(commands) = 1
       /\ commands[1].bytesPerRow = padded
       /\ commands[1].rowsPerImage = 0
       /\ commands[1].extent = dimensions
       /\ (dimensions.height - 1) * commands[1].bytesPerRow + unpadded
            <= captureSize

\* The copy of a capture of three rows of 65 pixels has been executed
\* without a validation error.
CaptureCopyFitsBufferWitness ==
  /\ gpuDone
  /\ gpuErrors = 0
  /\ dimensions = [width |-> 65, height |-> 3]
  /\ captureSize = 1536
  /\ commands[1].bytesPerRow = 512

(***************************************************************************)
(* Claims about createTextureWithData                                      *)
(***************************************************************************)

\* The length of the region of a write, from the layout it was issued
\* with: bytesPerRow * rowsPerImage * depth.
RegionLength(w) == w.bytesPerRow * w.rowsPerImage * w.size.depthOrArrayLayers

RECURSIVE SumRegionLengths(_)
SumRegionLengths(ws) ==
  IF ws = << >> THEN 0
  ELSE RegionLength(Head(ws)) + SumRegionLengths(Tail(ws))

\* The ranges of the writes issued so far lie end to end from offset 0, each
\* as long as its region, and the running offset is the sum of the lengths.
RegionsAreContiguous ==
  /\ (Len(writes) > 0 => writes[1].dataBegin = 0)
  /\ \A k \in 1..Len(writes) :
       /\ writes[k].dataEnd - writes[k].dataBegin = RegionLength(writes[k])
       /\ (k < Len(writes) => writes[k + 1].dataBegin = writes[k].dataEnd)
       /\ (writes[k].dataEnd <= dataLen =>
             writes[k].sliceLength = RegionLength(writes[k]))
  /\ binaryOffset = SumRegionLengths(writes)

\* C8 as stated: the sliced ranges partition the blob (first at 0, each next
\* where the previous ended, the final offset the sum of the lengths), and
\* with mipLevelCount = 1 and one layer there is exactly one region, at
\* offset 0, of length bytesPerRow * heightBlocks.
RegionsPartitionBlobOriginal ==
  /\ RegionsAreContiguous
  /\ (texPc = "returned" /\ mipCount = 1 /\ layerIterations = 1 =>
        /\ Len(writes) = 1
        /\ writes[1].dataBegin = 0
        /\ writes[1].dataEnd - writes[1].dataBegin =
             writes[1].bytesPerRow * writes[1].rowsPerImage)

\* C8 amended: as stated, but the single region of a texture with
\* mipLevelCount = 1 and one layer has length bytesPerRow * heightBlocks *
\* depth, where depth is depthOrArrayLayers for a 3D texture and 1 otherwise.
RegionsPartitionBlob ==
  /\ RegionsAreContiguous
  /\ (texPc = "returned" /\ mipCount = 1 /\ layerIterations = 1 =>
        /\ Len(writes) = 1
        /\ writes[1].dataBegin = 0
        /\ writes[1].dataEnd - writes[1].dataBegin =
             writes[1].bytesPerRow * writes[1].rowsPerImage
               * (IF descriptor.dimension = "3d"
                  THEN OrElse(descriptor.size.depthOrArrayLayers, 1)
                  ELSE 1))

\* Two layers of three levels of a block-compressed texture have been
\* sliced from a blob of exactly the length the regions add up to.
RegionsPartitionBlobWitness ==
  /\ texPc = "returned"
  /\ descriptor.format = "bc1-rgba-unorm"
  /\ Len(writes) = 6
  /\ writes[6].dataBegin > writes[5].dataBegin
  /\ writes[6].dataEnd = dataLen
  /\ binaryOffset = dataLen

\* The array layer count of a descriptor, by its definition.
ArrayLayerCount(desc) ==
  IF desc.dimension \in {"1d", "3d"} \/ desc.size.depthOrArrayLayers = Absent
  THEN 1
  ELSE desc.size.depthOrArrayLayers

\* C9: createTextureWithData emits exactly arrayLayerCount * mipLevelCount
\* regions, layer-major and mip-minor: the k-th write (k from 0) targets
\* mipLevel k mod mipLevelCount with origin z = k div mipLevelCount.
RegionsInLayerMajorOrder ==
  /\ \A k \in 1..Len(writes) :
       /\ writes[k].mipLevel = (k - 1) % mipCount
       /\ writes[k].origin = [x |-> 0, y |-> 0, z |-> (k - 1) \div mipCount]
  /\ Len(writes) <= ArrayLayerCount(descriptor) * mipCount
  /\ (texPc = "returned" =>
        Len(writes) = ArrayLayerCount(descriptor) * mipCount)

\* A 2D array texture of two layers and three levels has been uploaded: the
\* fourth write is level 0 of layer 1.
RegionsInLayerMajorOrderWitness ==
  /\ texPc = "returned"
  /\ descriptor.dimension = "2d"
  /\ descriptor.size.depthOrArrayLayers = 2
  /\ descriptor.mipLevelCount = 3
  /\ Len(writes) = 6
  /\ writes[4].mipLevel = 0
  /\ writes[4].origin.z = 1

\* C10: for every base size and every level below mipLevelCount, the level
\* size used for a region has width = max(1, baseSize.width >> level) and
\* height = max(1, baseSize.height >> level).
MipLevelSizeHalves ==
  \A k \in 1..Len(writes) :
    LET w == writes[k]
    IN /\ w.mipSize.width =
            Max(1, descriptor.size.width \div (2 ^ w.mipLevel))
       /\ w.mipSize.height =
            Max(1, OrElse(descriptor.size.height, 1) \div (2 ^ w.mipLevel))

\* C11: extent3DPhysicalSize rounds the width and the height of a level up
\* to the nearest multiple of the block dimension of the format: the
\* physical value is a multiple of it, at least the level value and less
\* than one block beyond it; a format of 1x1 blocks leaves the size
\* unchanged; depthOrArrayLayers passes through.
PhysicalSizeRoundsUpToBlocks ==
  \A k \in 1..Len(writes) :
    LET w == writes[k]
        blockWidth == formatInfo.blockDimensions[1]
        blockHeight == formatInfo.blockDimensions[2]
    IN /\ w.size.width % blockWidth = 0
       /\ w.size.width >= w.mipSize.width
       /\ w.size.width - w.mipSize.width < blockWidth
       /\ w.size.height % blockHeight = 0
       /\ w.size.height >= w.mipSize.height
       /\ w.size.height - w.mipSize.height < blockHeight
       /\ (blockWidth = 1 /\ blockHeight = 1 =>
             /\ w.size.width = w.mipSize.width
             /\ w.size.height = w.mipSize.height)
       /\ w.size.depthOrArrayLayers = w.mipSize.depthOrArrayLayers

\* A level of 3x6 texels of a format of 5x4 blocks has been written with
\* the physical size 5x8.
PhysicalSizeRoundsUpToBlocksWitness ==
  /\ Len(writes) >= 1
  /\ descriptor.format = "astc-5x4-unorm"
  /\ writes[1].mipSize.width = 3
  /\ writes[1].mipSize.height = 6
  /\ writes[1].size.width = 5
  /\ writes[1].size.height = 8

\* C12: for every region widthBlocks = physicalWidth / blockWidth and
\* heightBlocks = physicalHeight / blockHeight are exact, bytesPerRow =
\* widthBlocks * blockSize, the length of the region is bytesPerRow *
\* heightBlocks * depth of the level, and the write is issued with that
\* bytesPerRow and rowsPerImage = heightBlocks.
RegionLayoutInBlocks ==
  \A k \in 1..Len(writes) :
    LET w == writes[k]
        blockWidth == formatInfo.blockDimensions[1]
        blockHeight == formatInfo.blockDimensions[2]
        widthBlocks == w.size.width \div blockWidth
        heightBlocks == w.size.height \div blockHeight
    IN /\ widthBlocks * blockWidth = w.size.width
       /\ heightBlocks * blockHeight = w.size.height
       /\ w.bytesPerRow = widthBlocks * formatInfo.blockSize
       /\ w.rowsPerImage = heightBlocks
       /\ w.dataEnd - w.dataBegin =
            w.bytesPerRow * heightBlocks * w.mipSize.depthOrArrayLayers

\* A 3D level of depth 2 and 12x5 texels of a format of 5x4 blocks of 16
\* bytes: 3 blocks a row, 2 rows of blocks, 192 bytes.
RegionLayoutInBlocksWitness ==
  /\ Len(writes) >= 1
  /\ descriptor.format = "astc-5x4-unorm"
  /\ descriptor.dimension = "3d"
  /\ writes[1].size = [width |-> 15, height |-> 8, depthOrArrayLayers |-> 2]
  /\ writes[1].bytesPerRow = 48
  /\ writes[1].rowsPerImage = 2
  /\ writes[1].dataEnd - writes[1].dataBegin = 192

\* C13: layers versus depth. For a 2D descriptor (dimension "2d" or absent)
\* the layers iterated number depthOrArrayLayers (1 when absent); for a 3D
\* or 1D descriptor there is a single layer iteration. Every region of a
\* descriptor that is not 3D has depth 1; the region of level L of a 3D
\* descriptor has depth max(1, depthOrArrayLayers >> L).
LayersVersusDepth ==
  texPc # "idle" =>
    LET d == OrElse(descriptor.size.depthOrArrayLayers, 1)
    IN /\ (descriptor.dimension \in {"undefined", "2d"} =>
             layerIterations = d)
       /\ (descriptor.dimension \in {"1d", "3d"} => layerIterations = 1)
       /\ \A k \in 1..Len(writes) :
            /\ writes[k].origin.z < layerIterations
            /\ writes[k].size.depthOrArrayLayers =
                 (IF descriptor.dimension = "3d"
                  THEN Max(1, d \div (2 ^ writes[k].mipLevel))
                  ELSE 1)
       /\ (texPc = "returned" /\ Len(writes) > 0 =>
             writes[Len(writes)].origin.z = layerIterations - 1)

\* A 3D texture of depth 2 and two levels: one layer iteration, level 0 of
\* depth 2 and level 1 of depth 1.
LayersVersusDepthWitness ==
  /\ texPc = "returned"
  /\ descriptor.dimension = "3d"
  /\ descriptor.size.depthOrArrayLayers = 2
  /\ Len(writes) = 2
  /\ writes[1].size.depthOrArrayLayers = 2
  /\ writes[2].size.depthOrArrayLayers = 1

\* The format identifiers that have no usable descriptor: the ones listed
\* with an empty entry, and one that is not listed.
UnusableFormats == {"stencil8", "depth16unorm", "not-a-format"}

DescriptorLeftUnchanged ==
  texPc # "idle" => descriptor = passedDescriptor

\* The descriptor of the scenario of C19: 2D, one layer, two levels, 128x128
\* texels of bc1-rgba-unorm (4x4 blocks of 8 bytes).
IsBc1Scenario ==
  /\ descriptor.format = "bc1-rgba-unorm"
  /\ descriptor.dimension \in {"undefined", "2d"}
  /\ descriptor.size.width = 128
  /\ descriptor.size.height = 128
  /\ descriptor.size.depthOrArrayLayers \in {Absent, 1}
  /\ descriptor.mipLevelCount = 2

\* C19 as stated: for that descriptor createTextureWithData emits level 0
\* as physical 128x128, bytesPerRow 256, length 32768 at offset 0, then
\* level 1 as physical 64x64, bytesPerRow 128, length 8192 at offset 32768.
Bc1ScenarioRegionsOriginal ==
  (texPc = "returned" /\ IsBc1Scenario) =>
    /\ Len(writes) = 2
    /\ writes[1].mipLevel = 0
    /\ writes[1].size.width = 128
    /\ writes[1].size.height = 128
    /\ writes[1].bytesPerRow = 256
    /\ writes[1].dataBegin = 0
    /\ writes[1].dataEnd - writes[1].dataBegin = 32768
    /\ writes[2].mipLevel = 1
    /\ writes[2].size.width = 64
    /\ writes[2].size.height = 64
    /\ writes[2].bytesPerRow = 128
    /\ writes[2].dataBegin = 32768
    /\ writes[2].dataEnd - writes[2].dataBegin = 8192

\* C19 amended: the physical sizes and bytesPerRow are as stated, but a
\* level has physicalHeight / 4 rows of blocks: level 0 is 32 rows of 256
\* bytes, length 8192 at offset 0, and level 1 is 16 rows of 128 bytes,
\* length 2048 at offset 8192.
Bc1ScenarioRegions ==
  (texPc = "returned" /\ IsBc1Scenario) =>
    /\ Len(writes) = 2
    /\ writes[1].mipLevel = 0
    /\ writes[1].size.width = 128
    /\ writes[1].size.height = 128
    /\ writes[1].bytesPerRow = 256
    /\ writes[1].rowsPerImage = 32
    /\ writes[1].dataBegin = 0
    /\ writes[1].dataEnd - writes[1].dataBegin = 8192
    /\ writes[2].mipLevel = 1
    /\ writes[2].size.width = 64
    /\ writes[2].size.height = 64
    /\ writes[2].bytesPerRow = 128
    /\ writes[2].rowsPerImage = 16
    /\ writes[2].dataBegin = 8192
    /\ writes[2].dataEnd - writes[2].dataBegin = 2048

\* The upload of the scenario has returned, from a blob of the 10240 bytes
\* its two regions add up to.
Bc1ScenarioRegionsWitness ==
  /\ texPc = "returned"
  /\ IsBc1Scenario
  /\ dataLen = 10240
  /\ binaryOffset = 10240

\* C14: unpacking fails when the readback buffer is shorter than padded *
\* height: createPng never completes with an output image from such a buffer.
ShortBufferFailsUnpack ==
  ~(/\ capPc = "done"
    /\ Len(gpuBuffer)
         < PaddedRowBytes(pngDimensions.width) * pngDimensions.height)

\* C20: getRowPadding returns (unpadded 400, padded 512) for width 100,
\* (256, 256) for width 64 and (0, 0) for width 0 (the function has no
\* path that raises an error).
RowPaddingScenarios ==
  /\ (rowPc = "returned" /\ rowWidth = 100 =>
        rowPadding = [unpadded |-> 400, padded |-> 512])
  /\ (rowPc = "returned" /\ rowWidth = 64 =>
        rowPadding = [unpadded |-> 256, padded |-> 256])
  /\ (rowPc = "returned" /\ rowWidth = 0 =>
        rowPadding = [unpadded |-> 0, padded |-> 0])

\* The call with the degenerate width 0 has returned.
RowPaddingScenariosWitness ==
  /\ rowPc = "returned"
  /\ rowWidth = 0
  /\ rowPadding.padded = 0

(***************************************************************************)
(* Claims about the bytes createBufferInit leaves in the buffer            *)
(***************************************************************************)

\* C18: after createBufferInit returns, bytes [0, n) of the created buffer
\* equal the n bytes of descriptor.contents in order, no byte at index >= n
\* has been written (it still holds the zero of the fresh buffer), the buffer
\* has been unmapped, and descriptor.contents is unchanged. Stated for the
\* lengths whose bytes the model holds.
BufferInitPlacesContents ==
  biPc = "returned" /\ BytesAreHeld(contentsLen) =>
    /\ Len(bufferData) = bufferSize
    /\ Len(passedContents) = contentsLen.lo
    /\ \A k \in 1..contentsLen.lo : bufferData[k] = passedContents[k]
    /\ \A k \in (contentsLen.lo + 1)..Len(bufferData) : bufferData[k] = 0
    /\ ~bufferMapped
    /\ contents = passedContents

BufferInitPlacesContentsWitness ==
  /\ biPc = "returned"
  /\ contentsLen = U32(0, 5)
  /\ Len(bufferData) = 8
  /\ bufferData[5] = passedContents[5]
  /\ bufferData[5] # 0
  /\ bufferData[6] = 0
  /\ ~bufferMapped

(***************************************************************************)
(* Claims about Framework.renderPng                                        *)
(***************************************************************************)

IsPrefix(s, t) == Len(s) <= Len(t) /\ s = SubSeq(t, 1, Len(s))
Steps(log) == {log[k] : k \in 1..Len(log)}

StepOrder ==
  <<"init", "render", "copyToBuffer", "submit", "mapAsync", "unpack", "unmap">>

\* C17: in every run of Framework.renderPng the steps happen in the order
\* init resolves, render, copyToBuffer, finish and submit, mapAsync
\* resolves, rows unpacked, unmap, each once (all of them when the run has
\* ended); no row is read before the submit and before mapAsync has
\* resolved after the submitted work, and unmap comes after the last row.
RenderPngStepsInOrder ==
  /\ IsPrefix(fwLog, StepOrder)
  /\ (fwPc \in {"awaitCreatePng", "resolved", "rejected"} =>
        fwLog = StepOrder)
  /\ (fwRowsRead > 0 \/ "unpack" \in Steps(fwLog) =>
        /\ fwSubmitted
        /\ fwGpuDone
        /\ "mapAsync" \in Steps(fwLog))
  /\ ("unmap" \in Steps(fwLog) =>
        /\ fwRowsRead = fwDimensions.height
        /\ fwMapState = "unmapped")

RenderPngStepsInOrderWitness ==
  /\ fwPc = "resolved"
  /\ fwLog = StepOrder
  /\ fwDimensions.height = MaxHeight
  /\ fwRowsRead = MaxHeight

\* C21: createBufferInit requests a 16-byte buffer for 14 bytes of contents
\* and a 4-byte buffer for empty contents.
BufferInitScenarios ==
  /\ (biPc # "idle" /\ contentsLen = U32(0, 14) =>
        bufferSize = 16 /\ biPc = "returned")
  /\ (biPc # "idle" /\ contentsLen = U32(0, 0) =>
        bufferSize = 4 /\ biPc = "returned")

BufferInitScenariosWitness ==
  /\ biPc = "returned"
  /\ contentsLen = U32(0, 14)
  /\ bufferSize = 16
  /\ Len(bufferData) = 16

(***************************************************************************)
(* Claims about the older buffer-padding formula                           *)
(***************************************************************************)

\* C27: the legacy formula (padding = 4 - n mod 4; size = n + padding)
\* computes the same allocation size as the current createBufferInit for
\* every contents length n >= 0.
LegacySizeEqualsCurrent ==
  legacyPc = "returned" =>
    legacyBufferSize = IntLimbs(paddedSizeOf(legacyContentsLen))

(***************************************************************************)
(* Claims about hello-compute                                              *)
(***************************************************************************)

\* C22: collatz_iterations(n) of hello-compute returns the number of
\* applications of the rule (on the integers) needed to reach 1 from n, and
\* 0 for n <= 1: when it returns i, i applications of the rule have led
\* from n to an integer <= 1; for the default input [1, 4, 3, 295] the
\* program prints [0, 2, 7, 55], one result per element in input order.
CollatzCountsApplications ==
  ~hcChecked =>
    /\ \A k \in 1..Len(hcEnds) :
         /\ hcData[k] = U32(0, hcEnds[k].i)
         /\ hcEnds[k].exact.hi = 0
         /\ hcEnds[k].exact.lo <= 1
         /\ (numbers[k].hi = 0 /\ numbers[k].lo <= 1 => hcEnds[k].i = 0)
    /\ (hcPc = "printed" => Len(hcOutput) = Len(numbers))
    /\ (hcPc = "printed" /\ numbers = DefaultNumbers =>
          hcOutput = <<Printed(FALSE, <<0>>), Printed(FALSE, <<2>>),
                       Printed(FALSE, <<7>>), Printed(FALSE, <<5, 5>>)>>)

\* The number a sequence of decimal digits denotes.
RECURSIVE DigitsValue(_)
DigitsValue(digits) ==
  IF digits = << >> THEN 0
  ELSE 10 * DigitsValue(SubSeq(digits, 1, Len(digits) - 1))
         + digits[Len(digits)]

\* 3n + 1 > 0xffffffff
Exceeds32Bits(n) == Wide3n1(n).hi >= Limb

\* C28: in the overflow-guarded shader 3n+1 is evaluated only for odd
\* n < 0x55555555, so the u32 value never wraps (n stays the integer the
\* rule leads to); the function returns the sentinel 0xffffffff exactly when
\* an odd n with 3n+1 > 0xffffffff is reached, and the host prints
\* "OVERFLOW" for exactly the elements whose result is the sentinel and the
\* decimal count for every other element.
GuardedCollatzNeverWraps ==
  hcChecked =>
    /\ ~hcWrapped
    /\ (hcPc = "running" => hcN = hcExact)
    /\ \A k \in 1..Len(hcEnds) :
         LET end == hcEnds[k]
             oddOverflow ==
               /\ ~(end.n.hi = 0 /\ end.n.lo <= 1)
               /\ end.n.lo % 2 = 1
               /\ Exceeds32Bits(end.n)
         IN /\ ~end.wrapped
            /\ end.n = end.exact
            /\ (hcData[k] = OVERFLOW) = oddOverflow
            /\ (~oddOverflow =>
                  /\ end.n.hi = 0 /\ end.n.lo <= 1
                  /\ hcData[k] = U32(0, end.i))
    /\ (hcPc = "printed" =>
          /\ Len(hcOutput) = Len(numbers)
          /\ \A k \in 1..Len(hcOutput) :
               /\ hcOutput[k].overflow = (hcData[k] = OVERFLOW)
               /\ (~hcOutput[k].overflow =>
                     DigitsValue(hcOutput[k].digits) = hcEnds[k].i))

GuardedCollatzNeverWrapsWitness ==
  /\ hcChecked
  /\ hcPc = "printed"
  /\ numbers = MixedNumbers
  /\ hcOutput[1].overflow
  /\ hcEnds[1].i = 2
  /\ hcOutput[2] = Printed(FALSE, <<1, 1, 1>>)

(***************************************************************************)
(* Claims about a source blob that is too short                            *)
(***************************************************************************)

\* C23: when the blob passed to createTextureWithData is shorter than the
\* sum of the region lengths, it signals an error rather than handing
\* writeTexture a truncated slice: no writeTexture call gets a slice shorter
\* than its region, and the function does not return normally from a short
\* blob.
ShortBlobSignalsError ==
  /\ \A k \in 1..Len(writes) :
       writes[k].sliceLength = writes[k].dataEnd - writes[k].dataBegin
  /\ ~(texPc = "returned" /\ dataLen < binaryOffset)

(***************************************************************************)
(* Claims about the errors Framework.renderPng reports                     *)
(***************************************************************************)

\* C24: renderPng rejects with an AggregateError if and only if at least
\* one uncapturederror event was delivered between the construction of the
\* Framework and the check at the end of renderPng; the AggregateError
\* carries every such error exactly once in arrival order; the check
\* happens only after createPng has completed; with no such event
\* renderPng resolves normally.
RenderPngReportsErrors ==
  [][fwPc' \in {"resolved", "rejected"} /\ fwPc' # fwPc =>
       /\ fwPc = "awaitCreatePng"
       /\ fwLog = StepOrder
       /\ (fwPc' = "rejected") = (fwDelivered # << >>)
       /\ (fwPc' = "rejected" =>
             fwRejection' =
               [kind |-> "AggregateError", errors |-> fwDelivered])
       /\ (fwPc' = "resolved" => fwRejection' = NoRejection)]_vars

RenderPngReportsErrorsWitness ==
  /\ fwPc = "rejected"
  /\ fwRejection =
       [kind |-> "AggregateError",
        errors |-> <<"GPUOutOfMemoryError", "GPUValidationError">>]
  /\ fwDelivered = fwRejection.errors

(***************************************************************************)
(* Claims about Boids                                                      *)
(***************************************************************************)

\* C25: for every frame number n, render binds the bind group that reads
\* particleBuffers[n mod 2] and writes particleBuffers[(n+1) mod 2], draws
\* from particleBuffers[(n+1) mod 2] (the buffer just written), then
\* increments frameNum by exactly 1; in no bind group is the same particle
\* buffer bound as both the read-only input and the storage output.
BoidsPingPong ==
  /\ frameNum = Len(boidsFrames)
  /\ \A k \in 1..Len(boidsFrames) :
       LET f == boidsFrames[k]
           n == k - 1
       IN /\ f.frameNum = n
          /\ f.bindGroup.input = particleBuffers[(n % 2) + 1]
          /\ f.bindGroup.output = particleBuffers[((n + 1) % 2) + 1]
          /\ f.vertexBuffer = f.bindGroup.output
  /\ \A g \in 1..Len(particleBindGroups) :
       particleBindGroups[g].input # particleBindGroups[g].output

BoidsPingPongWitness ==
  /\ boidsInits = MaxInits
  /\ Len(boidsFrames) >= 3
  /\ boidsFrames[2].bindGroup = [input |-> 2, output |-> 1]
  /\ boidsFrames[3].bindGroup = [input |-> 1, output |-> 2]
  /\ boidsFrames[3].vertexBuffer = 2

(***************************************************************************)
(* Claims about Framework.getDevice                                        *)
(***************************************************************************)

\* The features of a list the adapter reports as supported, in order.
RECURSIVE SupportedOf(_, _)
SupportedOf(list, a) ==
  IF list = << >> THEN << >>
  ELSE (IF a.hasFeatures /\ Head(list) \in a.features
          THEN <<Head(list)>> ELSE << >>)
         \o SupportedOf(Tail(list), a)

\* C26: getDevice requests exactly the required features followed by those
\* optional features the adapter reports as supported (none when the
\* adapter has no feature set), never requests on account of the optional
\* list a feature the adapter lacks, and throws before requesting a device
\* when no adapter is available.
GetDeviceRequestsFeatures ==
  /\ (gdRequested =>
        /\ adapter.present
        /\ SubSeq(gdRequest, 1, Len(requiredFeatures.list))
             = requiredFeatures.list
        /\ SubSeq(gdRequest, Len(requiredFeatures.list) + 1, Len(gdRequest))
             = SupportedOf(optionalFeatures.list, adapter)
        /\ \A k \in (Len(requiredFeatures.list) + 1)..Len(gdRequest) :
             gdRequest[k] \in adapter.features
        /\ (~adapter.hasFeatures => gdRequest = requiredFeatures.list))
  /\ (gdPc \notin {"idle", "awaitAdapter"} /\ ~adapter.present =>
        /\ gdPc = "threw"
        /\ gdError = "Could not find adapter"
        /\ ~gdRequested)

GetDeviceRequestsFeaturesWitness ==
  /\ gdPc = "returned"
  /\ requiredFeatures = Array(<<"texture-compression-bc">>)
  /\ optionalFeatures =
       Array(<<"texture-compression-astc", "texture-compression-etc2">>)
  /\ adapter.features =
       {"texture-compression-bc", "texture-compression-etc2"}
  /\ gdRequest = <<"texture-compression-bc", "texture-compression-etc2">>

(***************************************************************************)
(* Claims about the hexagonal meshes                                       *)
(***************************************************************************)

\* A vertex was stored under the grid coordinate (i, j).
IsStored(i2, j2) ==
  \E e \in 1..Len(vertices) :
    vertices[e].key.i2 = i2 /\ vertices[e].key.j2 = j2

\* Some stored vertex that the loops look up has two consecutive stored
\* neighbours.
HasTriangle ==
  \E e \in 1..Len(vertices) :
    LET c == vertices[e].key
        n == surroundingHexagonalPoints(0, c.i2, c.j2) \o
               <<surroundingHexagonalPoints(0, c.i2, c.j2)[1]>>
    IN /\ (hexKind = "water" => JsRem((c.i2 - c.j2) \div 2, 3) = 0)
       /\ \E w \in 1..6 : /\ IsStored(n[w].i2, n[w].j2)
                          /\ IsStored(n[w + 1].i2, n[w + 1].j2)

\* C29: for every grid coordinate (i, j) under which the constructor stored
\* a vertex, the lookup of (i, j) in makeBufferData / generatePoints finds
\* the stored vertex, so a mesh in which some vertex has two consecutive
\* stored neighbours yields a non-empty triangle list.
StoredVerticesAreFound ==
  /\ \A k \in 1..Len(hexLookups) :
       IsStored(hexLookups[k].i2, hexLookups[k].j2) => hexLookups[k].found
  /\ (hexPc = "returned" /\ HasTriangle => hexHanded > 0)

(***************************************************************************)
(* Claims about the format of the skybox texture                           *)
(***************************************************************************)

\* C30: the skybox example picks its texture format by fixed priority
\* (etc2-rgb8unorm-srgb with texture-compression-etc2, else
\* bc1-rgba-unorm-srgb with texture-compression-bc, else bgra8unorm-srgb;
\* astc is never picked even when supported), so for every device feature
\* set the chosen format has a format-table entry whose required feature
\* is either absent or enabled on the device.
SkyboxFormatIsUsable ==
  skyPc = "initialised" =>
    LET info == describeTextureFormat(skyboxFormat)
    IN /\ ("texture-compression-etc2" \in deviceFeatures =>
             skyboxFormat = "etc2-rgb8unorm-srgb")
       /\ ("texture-compression-etc2" \notin deviceFeatures
             /\ "texture-compression-bc" \in deviceFeatures =>
             skyboxFormat = "bc1-rgba-unorm-srgb")
       /\ ("texture-compression-etc2" \notin deviceFeatures
             /\ "texture-compression-bc" \notin deviceFeatures =>
             skyboxFormat = "bgra8unorm-srgb")
       /\ skyboxFormat # "astc-4x4-unorm-srgb"
       /\ ~info.throws
       /\ info.defined
       /\ (info.requiredFeature = "undefined"
             \/ info.requiredFeature \in deviceFeatures)

SkyboxFormatIsUsableWitness ==
  /\ skyPc = "initialised"
  /\ deviceFeatures = {"texture-compression-astc", "texture-compression-bc"}
  /\ skyboxFormat = "bc1-rgba-unorm-srgb"

====
